---- MODULE Spec2Model ----
(***************************************************************************)
(* Review session of the flashcard app (FlashcardReview.js): the React     *)
(* state of the component, the asynchronous operations in flight (store    *)
(* requests and timers, each with the closure it captured), and the        *)
(* question/progress store the component talks to.                         *)
(***************************************************************************)
EXTENDS Integers, Sequences, FiniteSets, Bags, TLC

\* ---------------------------------------------------------------- bounds
NumCards == 5
SessionDeck == 3
SmallDeck == 2
MaxAttempts == 2
MaxTasks == 2
MaxInitRuns == 2
MaxSuspendCalls == 1
MaxResetCalls == 1
MaxDay == 3
MaxEvents == 3

\* ------------------------------------------------------ program constants
batchLimit == 5
preloadThreshold == 3

Cards == 1..NumCards
Answers == {1}
Ratings == {3}

priorityLevels == <<"Highest", "High", "Normal", "Low", "Off">>
Categories == {"new", "again", "hard", "good", "easy"}
defaultPriorities ==
  [new |-> "Normal", again |-> "Highest", hard |-> "High",
   good |-> "Normal", easy |-> "Low"]

\* the levels and categories the user picks in the priority selectors
InputLevels == {"Off", "Normal"}
InputCategories == {"new"}

\* null values of the component state
NoCard == [id |-> 0, review_count |-> 0, is_suspended |-> FALSE]
NoStats == [card_id |-> 0, review_count |-> 0, last_rating |-> 0, rating_history |-> <<>>]
NoReq == [endpoint |-> "none", exclude |-> 0, prio |-> defaultPriorities, limit |-> 0]

\* ----------------------------------------------------------- srsAdjustment
\* numbers are fixed point: a stability is in thousandths of a day, a
\* difficulty in hundredths, a multiplier in tenths; Absent is undefined: a
\* field the store response does not carry, an entry a table does not have
Absent == -1
NaN == -2

\* a rating_history the response does not carry
AbsentHistory == <<Absent>>

\* the response null
Null == [null |-> TRUE]

\* what a call that threw leaves instead of a result
Thrown(name) == [thrown |-> name]
Threw(result) == "thrown" \in DOMAIN result

Min(a, b) == IF a <= b THEN a ELSE b
Max(a, b) == IF a >= b THEN a ELSE b

\* x || d
OrDefault(x, d) == IF x = Absent \/ x = 0 THEN d ELSE x

STABILITY_MULTIPLIERS == <<2, 10, 25, 40>>
MIN_STABILITY == <<100, 500, 1000, 3000>>

\* table[rating]
Lookup(table, rating) == IF rating \in DOMAIN table THEN table[rating] ELSE Absent

\* a * b and Math.max(a, b) of numbers that may be undefined or NaN
Times(a, b) == IF a \in {Absent, NaN} \/ b \in {Absent, NaN} THEN NaN ELSE (a * b) \div 10
MathMax(a, b) == IF a \in {Absent, NaN} \/ b \in {Absent, NaN} THEN NaN ELSE Max(a, b)

calculateNextReviewClamped(stability) ==
  IF stability \in {Absent, NaN} THEN [date |-> 0] ELSE [date |-> stability]

\* the next review is so many thousandths of a day from now; toISOString
\* throws a RangeError on the invalid date a stability that is no number gives
calculateNextReview(stability) ==
  IF stability \in {Absent, NaN} THEN Thrown("RangeError") ELSE [date |-> stability]

UsesMinimumBelowOne(isNew, reviewCount) == isNew \/ reviewCount < 1

\* the branch for new cards
UsesMinimum(isNew, reviewCount) == isNew \/ reviewCount <= 1

CapStabilityEasyOnly(rating, stability) ==
  IF rating = 4 THEN Min(stability, 180000) ELSE stability

\* the caps of the ratings 4, 3 and 2
CapStability(rating, stability) ==
  IF rating = 4 THEN Min(stability, 180000)
  ELSE IF rating = 3 THEN Min(stability, 60000)
  ELSE IF rating = 2 THEN Min(stability, 14000)
  ELSE stability

\* adjustSrsParameters with the two nudges of the difficulty exchanged
adjustSrsParametersSwapped(originalResponse, rating, isNew) ==
  IF originalResponse = Null THEN Thrown("TypeError")
  ELSE
  LET originalStability == OrDefault(originalResponse.stability, 0)
      originalDifficulty == OrDefault(originalResponse.difficulty, 30)
      reviewCount == OrDefault(originalResponse.review_count, 0)
      adjustedStability ==
        IF UsesMinimum(isNew, reviewCount)
        THEN Lookup(MIN_STABILITY, rating)
        ELSE CapStability(rating,
               MathMax(Times(originalStability, Lookup(STABILITY_MULTIPLIERS, rating)),
                       Lookup(MIN_STABILITY, rating)))
      adjustedDifficulty ==
        IF rating = 4 THEN Min(originalDifficulty + 5, 90)
        ELSE IF rating = 1 THEN Max(originalDifficulty - 5, 10)
        ELSE originalDifficulty
      nextReview == calculateNextReview(adjustedStability)
  IN  IF Threw(nextReview) THEN nextReview
      ELSE [originalResponse EXCEPT !.stability = adjustedStability,
                                    !.difficulty = adjustedDifficulty,
                                    !.next_review = nextReview.date]

adjustSrsParameters(originalResponse, rating, isNew) ==
  IF originalResponse = Null THEN Thrown("TypeError")
  ELSE
  LET originalStability == OrDefault(originalResponse.stability, 0)
      originalDifficulty == OrDefault(originalResponse.difficulty, 30)
      reviewCount == OrDefault(originalResponse.review_count, 0)
      adjustedStability ==
        IF UsesMinimum(isNew, reviewCount)
        THEN Lookup(MIN_STABILITY, rating)
        ELSE CapStability(rating,
               MathMax(Times(originalStability, Lookup(STABILITY_MULTIPLIERS, rating)),
                       Lookup(MIN_STABILITY, rating)))
      adjustedDifficulty ==
        IF rating = 1 THEN Min(originalDifficulty + 5, 90)
        ELSE IF rating = 4 THEN Max(originalDifficulty - 5, 10)
        ELSE originalDifficulty
      nextReview == calculateNextReview(adjustedStability)
  IN  IF Threw(nextReview) THEN nextReview
      ELSE [originalResponse EXCEPT !.stability = adjustedStability,
                                    !.difficulty = adjustedDifficulty,
                                    !.next_review = nextReview.date]

isNewCard(card) == card.stability = Absent \/ card.stability = 0 \/ card.review_count = 0

\* what handleRating keeps of the store response: setLatestReviewStats and
\* updateReviewHistoryLocally take its numbers as they are
RatingStats(responseData, rating, card) == responseData

\* what handleDontShowAgain keeps of the store response of its rating
DontShowAgainStats(responseData, card) == adjustSrsParameters(responseData, 4, isNewCard(card))

\* the inputs the SRS numbers are tried on: every stability is a whole number
\* of hundredths of a day
StabilityInputs == {Absent, 0, 100, 400, 1000, 10000, 14000, 20000, 30000, 50000, 100000}
DifficultyInputs == {Absent, 0, 5, 10, 30, 90, 95, 100}
ReviewCountInputs == {Absent, 0, 1, 2, 5}
HistoryInputs == {AbsentHistory, <<>>, <<3>>, <<2, 4>>}
RatingInputs == 0..5
CardInputs == [stability : {Absent, 0, 2000}, review_count : {0, 3}]

NoSrs == [state |-> "idle"]

VARIABLES
  currentCard, selectedAnswers, isSubmitted, isLoading, error, apiStatus,
  latestReviewStats, isCurrentCardSuspended, cardQueue,
  priorityPreset, priorities, isInitialized,
  reviewHistory, todaysReviewCount,
  tasks,        \* bag of asynchronous operations in flight
  last,         \* the last step: the continuation that ran, whether it answered
                \* an old operation, and the views it flushed that show a card
                \* it newly displayed
  deck, sCount, sLast, sDue, sSusp,   \* the store: the cards and the user's progress
  sHistory, sToday,                   \* the ratings of each card, the reviews of today
  attempts,     \* ratings of handleRating the store accepted and requests that
                \* failed so far
  initRuns,     \* runs of initializeApp started so far
  suspendCalls, \* calls of handleSuspendToggle and handleDontShowAgain so far
  srs,          \* the arguments of a call of a pure function and what became of them
  refreshes,    \* background reads in flight: fetchUserProgress, fetchTodaysCount
  resetCalls    \* calls of handleResetReviewHistory and handleResetStatsOnly so far

uiVars == <<currentCard, selectedAnswers, isSubmitted, isLoading, error, apiStatus,
            latestReviewStats, isCurrentCardSuspended, cardQueue,
            priorityPreset, priorities, isInitialized,
            reviewHistory, todaysReviewCount>>
storeVars == <<deck, sCount, sLast, sDue, sSusp, sHistory, sToday>>
vars == <<uiVars, tasks, last, storeVars, attempts, initRuns, suspendCalls, srs,
          refreshes, resetCalls>>

\* ------------------------------------------------------------ React state
View ==
  [currentCard |-> currentCard, selectedAnswers |-> selectedAnswers,
   isSubmitted |-> isSubmitted, isLoading |-> isLoading, error |-> error,
   apiStatus |-> apiStatus, latestReviewStats |-> latestReviewStats,
   isCurrentCardSuspended |-> isCurrentCardSuspended, cardQueue |-> cardQueue,
   priorityPreset |-> priorityPreset, priorities |-> priorities,
   isInitialized |-> isInitialized, reviewHistory |-> reviewHistory,
   todaysReviewCount |-> todaysReviewCount]

\* the state setters of one continuation, applied in the order they are called
RECURSIVE ApplyUpdates(_, _)
ApplyUpdates(v, ups) ==
  IF ups = <<>> THEN v
  ELSE ApplyUpdates([v EXCEPT ![Head(ups)[1]] = Head(ups)[2]], Tail(ups))

\* the view after each setter call of the continuation
RECURSIVE Flushes(_, _)
Flushes(v, ups) ==
  IF ups = <<>> THEN <<>>
  ELSE LET w == [v EXCEPT ![Head(ups)[1]] = Head(ups)[2]]
       IN <<w>> \o Flushes(w, Tail(ups))

Snapshot(w) ==
  [card |-> w.currentCard.id, isSubmitted |-> w.isSubmitted,
   selected |-> w.selectedAnswers, stats |-> w.latestReviewStats.card_id]

NewCardViews(ups) ==
  LET fl == Flushes(View, ups)
      shows(i) == fl[i].currentCard # NoCard /\ fl[i].currentCard # currentCard
  IN  SelectSeq([i \in 1..Len(fl) |-> IF shows(i) THEN Snapshot(fl[i]) ELSE [card |-> 0]],
                LAMBDA s : s.card # 0)

Render(op, stale, ups) ==
  LET w == ApplyUpdates(View, ups) IN
  /\ currentCard' = w.currentCard
  /\ selectedAnswers' = w.selectedAnswers
  /\ isSubmitted' = w.isSubmitted
  /\ isLoading' = w.isLoading
  /\ error' = w.error
  /\ apiStatus' = w.apiStatus
  /\ latestReviewStats' = w.latestReviewStats
  /\ isCurrentCardSuspended' = w.isCurrentCardSuspended
  /\ cardQueue' = w.cardQueue
  /\ priorityPreset' = w.priorityPreset
  /\ priorities' = w.priorities
  /\ isInitialized' = w.isInitialized
  /\ reviewHistory' = w.reviewHistory
  /\ todaysReviewCount' = w.todaysReviewCount
  /\ last' = [op |-> op, stale |-> stale, views |-> NewCardViews(ups)]

\* the continuation op of an asynchronous operation ran
Commit(op, ups) == Render(op, FALSE, ups)

\* an event handler of the user interface ran
Event(ups) == Render("event", FALSE, ups)

\* which branch of the conditional rendering is on screen
showLoading == isLoading /\ apiStatus # "disconnected"
showError == ~showLoading /\ error # "none"
showCard == ~showLoading /\ error = "none" /\ currentCard # NoCard
showEmpty == ~showLoading /\ error = "none" /\ currentCard = NoCard

\* ------------------------------------------------------------- the store
ClassOf(c) ==
  IF sCount[c] = 0 THEN "new"
  ELSE CASE sLast[c] = 1 -> "again" [] sLast[c] = 2 -> "hard"
         [] sLast[c] = 3 -> "good" [] OTHER -> "easy"

CardObj(c) == [id |-> c, review_count |-> sCount[c], is_suspended |-> c \in sSusp]

\* fetchDue: reviewed cards whose next review is due, never a suspended card
fetchDue(ex) == {c \in deck : sCount[c] > 0 /\ c \in sDue /\ c \notin sSusp /\ c # ex}

\* fetchNew: never-reviewed cards
fetchNew(ex) == {c \in deck : sCount[c] = 0 /\ c \notin sSusp /\ c # ex}

\* fetchByPriority: cards of the classes that are not "Off"
fetchByPriority(prio, ex) ==
  {c \in deck : prio[ClassOf(c)] # "Off" /\ c \notin sSusp /\ c # ex}

UpTo(S, limit) ==
  IF Cardinality(S) <= limit THEN {S}
  ELSE {T \in SUBSET S : Cardinality(T) = limit}

\* the batches the store may answer a request with
StoreBatches(req) ==
  CASE req.endpoint = "due" -> UpTo(fetchDue(req.exclude), req.limit)
    [] req.endpoint = "new" -> UpTo(fetchNew(req.exclude), req.limit)
    [] OTHER -> UpTo(fetchByPriority(req.prio, req.exclude), req.limit)

RECURSIVE SeqOfSet(_)
SeqOfSet(S) ==
  IF S = {} THEN <<>>
  ELSE LET m == CHOOSE x \in S : \A y \in S : x <= y
       IN <<m>> \o SeqOfSet(S \ {m})

ResponseData(S) == LET ids == SeqOfSet(S) IN [i \in 1..Len(ids) |-> CardObj(ids[i])]

\* submitRating
ReviewResponse(c, r) ==
  [card_id |-> c, review_count |-> sCount[c] + 1, last_rating |-> r,
   rating_history |-> Append(sHistory[c], r)]

\* -------------------------------------------------------- review history
\* rating_history || []
OrEmpty(history) == IF history = AbsentHistory THEN <<>> ELSE history

\* the record of a card in reviewHistory (the timestamp is left out); rating
\* is Absent in a record that was mapped from the progress of the store
ReviewEntry(cardId, rating, reviewCount, isSuspended, ratingHistory) ==
  [cardId |-> cardId, rating |-> rating, review_count |-> reviewCount,
   is_suspended |-> isSuspended, rating_history |-> ratingHistory]

\* history.findIndex(entry => entry.cardId === cardId), counted from 1: 0 is
\* the -1 of the code
findIndex(history, cardId) ==
  IF \E i \in 1..Len(history) : history[i].cardId = cardId
  THEN CHOOSE i \in 1..Len(history) :
         /\ history[i].cardId = cardId
         /\ \A j \in 1..(i - 1) : history[j].cardId # cardId
  ELSE 0

mergeAppend(prev, newReviewEntry) == Append(prev, newReviewEntry)

\* the update function updateReviewHistoryLocally passes to setReviewHistory
mergeLocally(prev, newReviewEntry) ==
  LET existingIndex == findIndex(prev, newReviewEntry.cardId) IN
  IF existingIndex >= 1 THEN [prev EXCEPT ![existingIndex] = newReviewEntry]
  ELSE Append(prev, newReviewEntry)

updateReviewHistoryLocally(prev, cardId, rating, responseData) ==
  IF cardId = 0 \/ responseData = Null THEN prev
  ELSE mergeLocally(prev, ReviewEntry(cardId, rating, responseData.review_count, FALSE,
                                      OrEmpty(responseData.rating_history)))

\* newReviewEntry of handleDontShowAgain: the cards of the model carry no
\* rating_history of their own
DontShowAgainEntry(cardId, responseData) ==
  ReviewEntry(cardId, 4, responseData.review_count, TRUE,
              IF responseData.rating_history # AbsentHistory
              THEN responseData.rating_history ELSE <<4>>)

\* the update function handleDontShowAgain passes to setReviewHistory
mergeDontShowAgain(prev, newReviewEntry) ==
  LET existingIndex == findIndex(prev, newReviewEntry.cardId) IN
  IF existingIndex >= 1
  THEN [prev EXCEPT ![existingIndex] =
          [newReviewEntry EXCEPT !.rating_history =
             Append(OrEmpty(prev[existingIndex].rating_history), 4)]]
  ELSE Append(prev, newReviewEntry)

\* the reviewed-cards endpoint: the progress of every card reviewed so far
reviewedCards ==
  LET ids == SeqOfSet({c \in deck : sCount[c] > 0}) IN
  [i \in 1..Len(ids) |->
     [card_id |-> ids[i], review_count |-> sCount[ids[i]],
      is_suspended |-> ids[i] \in sSusp, rating_history |-> sHistory[ids[i]]]]

\* the history fetchUserProgress maps the response to
fetchUserProgress(responseData) ==
  [i \in 1..Len(responseData) |->
     ReviewEntry(responseData[i].card_id, Absent, responseData[i].review_count,
                 responseData[i].is_suspended, OrEmpty(responseData[i].rating_history))]

\* --------------------------------------------------------------- shuffle
SwapOverwrite(a, i, j) == [a EXCEPT ![i] = a[j]]

\* [shuffled[i], shuffled[j]] = [shuffled[j], shuffled[i]]
Swap(a, i, j) == [a EXCEPT ![i] = a[j], ![j] = a[i]]

ShuffleChoices(n) == {js \in [2..n -> 1..n] : \A i \in 2..n : js[i] <= i}

RECURSIVE FisherYates(_, _, _)
FisherYates(a, i, js) ==
  IF i < 2 THEN a ELSE FisherYates(Swap(a, i, js[i]), i - 1, js)

shuffleArray(array, js) == FisherYates(array, Len(array), js)

\* ------------------------------------------------- operations in flight
\* an operation in flight with the values its closure reads later: the
\* per-class priorities are read only in the custom branches
Task(kind, card, q, preset, prio, init, rating, req) ==
  [kind |-> kind, card |-> card, q |-> q, preset |-> preset,
   prio |-> IF preset = "custom" THEN prio ELSE defaultPriorities,
   init |-> init, rating |-> rating, req |-> req,
   rank |-> 0, old |-> FALSE, stats |-> NoStats]

Pending == BagToSet(tasks)
Room == BagCardinality(tasks) < MaxTasks
Spawn(t) == tasks (+) SetToBag({t})
Finish(t) == tasks (-) SetToBag({t})
Become(t, u) == (tasks (-) SetToBag({t})) (+) SetToBag({u})

\* the session may still send a rating or see a request fail
Budget == attempts + Cardinality({t \in Pending : t.kind = "rate"}) < MaxAttempts

\* history of the next-card operations in flight (runs of initializeApp and
\* calls of fetchNextCard): rank is the order in which they were issued, old
\* marks an operation issued before one that has displayed its card since
Operations == {t \in Pending : t.rank > 0}
NextRank == Cardinality(Operations) + 1

Reorder(u, t, displayed) ==
  IF u.rank = 0 THEN u
  ELSE IF u.rank > t.rank THEN [u EXCEPT !.rank = @ - 1]
  ELSE [u EXCEPT !.old = @ \/ displayed]

\* the operation t ends; displayed: it put a card on screen
Retire(t, displayed) ==
  LET B == Finish(t)
      S == BagToSet(B)
  IN  [y \in {Reorder(u, t, displayed) : u \in S} |->
         CopiesIn(CHOOSE u \in S : Reorder(u, t, displayed) = y, B)]

\* ------------------------------------------------------------ fetchNextCard
\* the batch request of fetchNextCard: the priority policy of the closure
FetchRequest(preset, prio, excludeCardId) ==
  IF preset = "custom"
  THEN [endpoint |-> "next", exclude |-> 0, prio |-> prio, limit |-> batchLimit]
  ELSE [endpoint |-> "due", exclude |-> excludeCardId, prio |-> defaultPriorities,
        limit |-> batchLimit]

FallbackRequest(excludeCardId) ==
  [endpoint |-> "new", exclude |-> excludeCardId, prio |-> defaultPriorities, limit |-> 5]

\* the request of the background preload
PreloadRequest(preset, prio, nextCardId) ==
  IF preset = "custom"
  THEN [endpoint |-> "next", exclude |-> nextCardId, prio |-> prio, limit |-> 5]
  ELSE [endpoint |-> "due", exclude |-> nextCardId, prio |-> defaultPriorities, limit |-> 5]

FetchStart == << <<"isLoading", TRUE>>, <<"error", "none">> >>

FetchTask(preset, prio, excludeCardId, init, rank) ==
  [Task("fetch", excludeCardId, <<>>, preset, defaultPriorities, init, 0,
        FetchRequest(preset, prio, excludeCardId)) EXCEPT !.rank = rank]

DisplayUpdatesCardFirst(firstCard, rest) ==
  << <<"currentCard", firstCard>>,
     <<"selectedAnswers", {}>>,
     <<"isSubmitted", FALSE>>,
     <<"latestReviewStats", NoStats>>,
     <<"isCurrentCardSuspended", firstCard.is_suspended>>,
     <<"cardQueue", rest>> >>

\* setter calls that put a card on screen
DisplayUpdates(firstCard, rest) ==
  << <<"selectedAnswers", {}>>,
     <<"isSubmitted", FALSE>>,
     <<"latestReviewStats", NoStats>>,
     <<"isCurrentCardSuspended", firstCard.is_suspended>>,
     <<"cardQueue", rest>>,
     <<"currentCard", firstCard>> >>

NoCardUpdates == << <<"currentCard", NoCard>>, <<"cardQueue", <<>> >> >>

FetchFailedKeepsQueue == << <<"error", "fetch">>, <<"currentCard", NoCard>> >>

\* the catch block of fetchNextCard
FetchFailed ==
  << <<"error", "fetch">>, <<"currentCard", NoCard>>, <<"cardQueue", <<>> >> >>

FetchEndWithoutFinally(t) ==
  IF t.init THEN << <<"isInitialized", TRUE>>, <<"isLoading", FALSE>> >> ELSE <<>>

\* what runs after fetchNextCard returns: its finally block, then the tail of
\* initializeApp when the fetch is the one of the initialization
FetchEnd(t) ==
  << <<"isLoading", FALSE>> >> \o
  (IF t.init THEN << <<"isInitialized", TRUE>>, <<"isLoading", FALSE>> >> ELSE <<>>)

\* ------------------------------------------------------------------ Init
\* the progress a user may start the session with: every card is new, or the
\* first card was reviewed once and is due again
NewDeck == [c \in Cards |-> 0]
StartedDeck == [c \in Cards |-> IF c = 1 THEN 1 ELSE 0]

InitTask(preset, prio, rank) ==
  [Task("initConn", 0, <<>>, preset, prio, TRUE, 0, NoReq) EXCEPT !.rank = rank]

\* the component is mounted: savedPreset is the preset found in localStorage
\* ("srs" when nothing is saved), cards is the deck of the store and progress
\* the review count of each card
MountedPage(savedPreset, cards, progress) ==
  /\ currentCard = NoCard
  /\ selectedAnswers = {}
  /\ isSubmitted = FALSE
  /\ isLoading = TRUE              \* initializeApp ran up to its first await
  /\ error = "none"
  /\ apiStatus = "checking"
  /\ latestReviewStats = NoStats
  /\ isCurrentCardSuspended = FALSE
  /\ cardQueue = <<>>
  /\ priorityPreset = savedPreset
  /\ priorities = defaultPriorities
  /\ isInitialized = FALSE
  /\ reviewHistory = <<>>
  /\ todaysReviewCount = 0
  /\ tasks = SetToBag({InitTask(savedPreset, defaultPriorities, 1)})
  /\ last = [op |-> "mount", stale |-> FALSE, views |-> <<>>]
  /\ deck = cards
  /\ sCount = progress
  /\ sLast = [c \in Cards |-> IF sCount[c] = 0 THEN 0 ELSE 3]
  /\ sDue = {c \in deck : sCount[c] > 0}
  /\ sSusp = {}
  /\ sHistory = [c \in Cards |-> [i \in 1..sCount[c] |-> sLast[c]]]
  /\ sToday = 0
  /\ attempts = 0
  /\ initRuns = 1
  /\ suspendCalls = 0
  /\ refreshes = [progress |-> 0, today |-> 0]
  /\ resetCalls = 0

Mounted(savedPreset, cards, progress) ==
  /\ MountedPage(savedPreset, cards, progress)
  /\ srs = NoSrs

\* nothing saved in localStorage, a deck of SmallDeck cards, one of them due
Init == Mounted("srs", 1..SmallDeck, StartedDeck)

\* nothing saved in localStorage, a deck of SmallDeck new cards
InitNewDeck == Mounted("srs", 1..SmallDeck, NewDeck)

\* the custom preset was saved on an earlier visit, a deck of SessionDeck cards
InitSession == Mounted("custom", 1..SessionDeck, StartedDeck)

\* ------------------------------------------------------- initializeApp
\* checkAPIConnectivity answered inside initializeApp
InitConnected ==
  \E t \in Pending :
    /\ t.kind = "initConn"
    /\ Commit("InitConnected", << <<"apiStatus", "connected">> >>)
    /\ tasks' = Become(t, [t EXCEPT !.kind = "initData"])
    /\ UNCHANGED <<storeVars, attempts, initRuns, suspendCalls, srs, refreshes, resetCalls>>

InitDisconnected ==
  \E t \in Pending :
    /\ t.kind = "initConn"
    /\ Commit("InitDisconnected", << <<"apiStatus", "disconnected">>, <<"error", "connect">>,
                 <<"isLoading", FALSE>>, <<"isLoading", FALSE>>, <<"isLoading", FALSE>> >>)
    /\ tasks' = Retire(t, FALSE)
    /\ UNCHANGED <<storeVars, attempts, initRuns, suspendCalls, srs, refreshes, resetCalls>>

\* fetchTotalCardCount, fetchUserProgress and fetchTodaysCount answered (each
\* catches its own failure: fetchTodaysCount sets the count to 0 when its
\* request failed); initializeApp goes on to fetchNextCard()
InitDataLoaded ==
  \E t \in Pending, count \in {sToday, 0} :
    /\ t.kind = "initData"
    /\ Commit("InitDataLoaded",
              << <<"reviewHistory", fetchUserProgress(reviewedCards)>>,
                 <<"todaysReviewCount", count>> >> \o FetchStart)
    /\ tasks' = Become(t, [FetchTask(t.preset, t.prio, 0, TRUE, t.rank)
                             EXCEPT !.old = t.old])
    /\ UNCHANGED <<storeVars, attempts, initRuns, suspendCalls, srs, refreshes, resetCalls>>

\* the master initialization effect re-runs when initializeApp changes
InitEffect(preset, prio) ==
  IF isInitialized THEN <<>>
  ELSE << <<"isLoading", TRUE>>, <<"apiStatus", "checking">> >>

InitEffectTasks(preset, prio, rank) ==
  IF isInitialized THEN EmptyBag ELSE SetToBag({InitTask(preset, prio, rank)})

InitEffectRoom(n) ==
  IF isInitialized THEN BagCardinality(tasks) + n <= MaxTasks
  ELSE BagCardinality(tasks) + n < MaxTasks /\ initRuns < MaxInitRuns

InitEffectRuns == IF isInitialized THEN initRuns ELSE initRuns + 1

\* ------------------------------------------------- fetchNextCard answers
FallsBackInAnyPreset(preset, fetchedCards) == fetchedCards = <<>>

\* the new-card fallback is tried only in the srs preset
FallsBack(preset, fetchedCards) == preset = "srs" /\ fetchedCards = <<>>

FetchResponse ==
  \E t \in Pending :
    /\ t.kind = "fetch"
    /\ \E S \in StoreBatches(t.req) :
         LET fetchedCards == ResponseData(S) IN
         IF fetchedCards # <<>>
         THEN \E js \in ShuffleChoices(Len(fetchedCards)) :
                LET shuffled == shuffleArray(fetchedCards, js) IN
                /\ Render("FetchResponse", t.old,
                          DisplayUpdates(Head(shuffled), Tail(shuffled)) \o FetchEnd(t))
                /\ tasks' = Retire(t, TRUE)
         ELSE IF FallsBack(t.preset, fetchedCards)
              THEN /\ Commit("FetchResponse", <<>>)
                   /\ tasks' = Become(t, [t EXCEPT !.kind = "fetchNew",
                                                   !.req = FallbackRequest(t.card)])
              ELSE /\ Render("FetchResponse", t.old, NoCardUpdates \o FetchEnd(t))
                   /\ tasks' = Retire(t, FALSE)
    /\ UNCHANGED <<storeVars, attempts, initRuns, suspendCalls, srs, refreshes, resetCalls>>

FetchNewResponse ==
  \E t \in Pending :
    /\ t.kind = "fetchNew"
    /\ \E S \in StoreBatches(t.req) :
         LET newCards == ResponseData(S) IN
         IF newCards # <<>>
         THEN \E js \in ShuffleChoices(Len(newCards)) :
                LET shuffled == shuffleArray(newCards, js) IN
                /\ Render("FetchNewResponse", t.old,
                          DisplayUpdates(Head(shuffled), Tail(shuffled)) \o FetchEnd(t))
                /\ tasks' = Retire(t, TRUE)
         ELSE /\ Render("FetchNewResponse", t.old, NoCardUpdates \o FetchEnd(t))
              /\ tasks' = Retire(t, FALSE)
    /\ UNCHANGED <<storeVars, attempts, initRuns, suspendCalls, srs, refreshes, resetCalls>>

\* a batch request of fetchNextCard fails: its catch block
FetchError ==
  \E t \in Pending :
    /\ t.kind \in {"fetch", "fetchNew"}
    /\ Render("FetchError", t.old, FetchFailed \o FetchEnd(t))
    /\ tasks' = Retire(t, FALSE)
    /\ Budget
    /\ attempts' = attempts + 1
    /\ UNCHANGED <<storeVars, initRuns, suspendCalls, srs, refreshes, resetCalls>>

\* ----------------------------------------------------- answering a card
\* card 1 has several correct answers (the model tracks one of its answers)
MultiAnswerCards == {1}
isMultiAnswer == currentCard.id \in MultiAnswerCards

handleAnswerSelect ==
  \E a \in Answers :
    /\ showCard
    /\ ~isSubmitted
    /\ IF isMultiAnswer
       THEN Event(<< <<"selectedAnswers",
                        IF a \in selectedAnswers THEN selectedAnswers \ {a}
                        ELSE selectedAnswers \cup {a}>> >>)
       ELSE Event(<< <<"isSubmitted", TRUE>>, <<"selectedAnswers", {a}>> >>)
    /\ UNCHANGED <<tasks, storeVars, attempts, initRuns, suspendCalls, srs, refreshes, resetCalls>>

handleSubmitAnswers ==
  /\ showCard
  /\ isMultiAnswer
  /\ ~isSubmitted
  /\ selectedAnswers # {}
  /\ Event(<< <<"isSubmitted", TRUE>> >>)
  /\ UNCHANGED <<tasks, storeVars, attempts, initRuns, suspendCalls, srs, refreshes, resetCalls>>

\* ---------------------------------------------------------- handleRating
\* a rating button is clicked: the submission goes out with the closure of
\* the render that drew the button
handleRating ==
  \E rating \in Ratings :
    /\ showCard
    /\ isSubmitted              \* the rating buttons are drawn once submitted
    /\ Budget
    /\ Room
    /\ Event(<< <<"isLoading", TRUE>>, <<"isSubmitted", TRUE>>, <<"error", "none">> >>)
    /\ tasks' = Spawn(Task("rate", currentCard.id, cardQueue, priorityPreset,
                           priorities, FALSE, rating, NoReq))
    /\ UNCHANGED <<storeVars, attempts, initRuns, suspendCalls, srs, refreshes, resetCalls>>

\* the store accepted the review: stats are shown and the 600 ms timer starts
RatingAccepted ==
  \E t \in Pending :
    /\ t.kind = "rate"
    /\ Commit("RatingAccepted",
              << <<"latestReviewStats", ReviewResponse(t.card, t.rating)>>,
                 <<"reviewHistory",
                   updateReviewHistoryLocally(reviewHistory, t.card, t.rating,
                                              ReviewResponse(t.card, t.rating))>>,
                 <<"todaysReviewCount", todaysReviewCount + 1>> >>)
    /\ sCount' = [sCount EXCEPT ![t.card] = @ + 1]
    /\ sLast' = [sLast EXCEPT ![t.card] = t.rating]
    /\ sDue' = sDue \ {t.card}
    /\ sHistory' = [sHistory EXCEPT ![t.card] = Append(@, t.rating)]
    /\ sToday' = sToday + 1
    /\ tasks' = Become(t, [t EXCEPT !.kind = "rateTimer"])
    /\ attempts' = attempts + 1
    \* the effect of latestReviewStats starts fetchUserProgress
    /\ refreshes' = [refreshes EXCEPT !.progress = @ + 1]
    /\ UNCHANGED <<deck, sSusp, initRuns, suspendCalls, srs, resetCalls>>

RatingFailedKeepsSubmitted == << <<"error", "review">>, <<"isLoading", FALSE>> >>

\* the catch block of handleRating
RatingFailedUpdates ==
  << <<"error", "review">>, <<"isLoading", FALSE>>, <<"isSubmitted", FALSE>> >>

RatingFailed ==
  \E t \in Pending :
    /\ t.kind = "rate"
    /\ Commit("RatingFailed", RatingFailedUpdates)
    /\ tasks' = Finish(t)
    /\ attempts < MaxAttempts
    /\ attempts' = attempts + 1
    /\ UNCHANGED <<storeVars, initRuns, suspendCalls, srs, refreshes, resetCalls>>

\* ------------------------------------------------ displayNextCardFromQueue
shouldPreload(queue) == Len(queue) <= preloadThreshold

PreloadTimer(t, nextCard) ==
  Task("preloadTimer", nextCard.id, <<>>, t.preset, t.prio, FALSE, 0, NoReq)

\* displayNextCardFromQueue(excludeCardId) run by a timer task t
displayNextCardFromQueue(t) ==
  IF Len(t.q) > 0
  THEN LET nextCard == Head(t.q)
           nextQueue == Tail(t.q) IN
       /\ Commit("displayNextCardFromQueue",
                 DisplayUpdates(nextCard, nextQueue) \o << <<"isLoading", FALSE>> >>)
       /\ tasks' = IF shouldPreload(t.q) THEN Become(t, PreloadTimer(t, nextCard))
                   ELSE Finish(t)
  ELSE IF t.card # 0
       THEN /\ Commit("displayNextCardFromQueue", FetchStart)
            /\ tasks' = Become(t, FetchTask(t.preset, t.prio, t.card, FALSE, NextRank))
       ELSE /\ Commit("displayNextCardFromQueue", << <<"isLoading", FALSE>> >>)
            /\ tasks' = Finish(t)

\* the 600 ms timer of handleRating fires
RatingTimer ==
  \E t \in Pending :
    /\ t.kind = "rateTimer"
    /\ displayNextCardFromQueue(t)
    /\ UNCHANGED <<storeVars, attempts, initRuns, suspendCalls, srs, refreshes, resetCalls>>

\* the 3 s timer fires: preloadMore sends its request
PreloadStart ==
  \E t \in Pending :
    /\ t.kind = "preloadTimer"
    /\ Commit("PreloadStart", <<>>)
    /\ tasks' = Become(t, [t EXCEPT !.kind = "preload",
                                    !.req = PreloadRequest(t.preset, t.prio, t.card)])
    /\ UNCHANGED <<storeVars, attempts, initRuns, suspendCalls, srs, refreshes, resetCalls>>

PreloadPrepend(prevQueue, shuffled) == shuffled \o prevQueue

\* setCardQueue(prevQueue => [...prevQueue, ...shuffled])
PreloadAppend(prevQueue, shuffled) == prevQueue \o shuffled

\* preloadMore got its batch
PreloadResponse ==
  \E t \in Pending :
    /\ t.kind = "preload"
    /\ \E S \in StoreBatches(t.req) :
         LET fetchedCards == ResponseData(S) IN
         /\ IF fetchedCards # <<>>
            THEN \E js \in ShuffleChoices(Len(fetchedCards)) :
                   Commit("PreloadResponse",
                          << <<"cardQueue",
                               PreloadAppend(cardQueue, shuffleArray(fetchedCards, js))>> >>)
            ELSE Commit("PreloadResponse", <<>>)
    /\ tasks' = Finish(t)
    /\ UNCHANGED <<storeVars, attempts, initRuns, suspendCalls, srs, refreshes, resetCalls>>

\* preloadMore failed: logged only
PreloadError ==
  \E t \in Pending :
    /\ t.kind = "preload"
    /\ Commit("PreloadError", <<>>)
    /\ tasks' = Finish(t)
    /\ Budget
    /\ attempts' = attempts + 1
    /\ UNCHANGED <<storeVars, initRuns, suspendCalls, srs, refreshes, resetCalls>>

\* ----------------------------------------------------- handleSuspendToggle
\* the component defines handleSuspendToggle but the page it renders has no
\* control that calls it: its steps are not disjuncts of Next
handleSuspendToggle ==
  /\ showCard
  /\ ~isSubmitted
  /\ Room
  /\ suspendCalls < MaxSuspendCalls
  /\ Event(<< <<"isSubmitted", TRUE>>, <<"error", "none">> >>)
  /\ tasks' = Spawn(Task("suspend", currentCard.id, <<>>, priorityPreset, priorities,
                         FALSE, 0, NoReq))
  /\ suspendCalls' = suspendCalls + 1
  /\ UNCHANGED <<storeVars, attempts, initRuns, srs, refreshes, resetCalls>>

SuspendAnswered ==
  \E t \in Pending :
    /\ t.kind = "suspend"
    /\ LET nowSuspended == t.card \notin sSusp IN
       /\ sSusp' = IF nowSuspended THEN sSusp \cup {t.card} ELSE sSusp \ {t.card}
       /\ IF nowSuspended
          THEN /\ Commit("SuspendAnswered", << <<"isCurrentCardSuspended", TRUE>> >>)
               /\ tasks' = Become(t, [t EXCEPT !.kind = "suspendTimer"])
          ELSE /\ Commit("SuspendAnswered", << <<"isCurrentCardSuspended", FALSE>>,
                            <<"isSubmitted", FALSE>>, <<"isLoading", FALSE>> >>)
               /\ tasks' = Finish(t)
    /\ UNCHANGED <<deck, sCount, sLast, sDue, sHistory, sToday, attempts, initRuns, suspendCalls, srs, refreshes, resetCalls>>

SuspendFailed ==
  \E t \in Pending :
    /\ t.kind = "suspend"
    /\ Commit("SuspendFailed", << <<"error", "suspend">>, <<"isSubmitted", FALSE>>,
                                  <<"isLoading", FALSE>> >>)
    /\ tasks' = Finish(t)
    /\ Budget
    /\ attempts' = attempts + 1
    /\ UNCHANGED <<storeVars, initRuns, suspendCalls, srs, refreshes, resetCalls>>

\* the 300 ms timer after a suspension: fetchNextCard(currentCard.id)
SuspendTimer ==
  \E t \in Pending :
    /\ t.kind = "suspendTimer"
    /\ Commit("SuspendTimer", FetchStart)
    /\ tasks' = Become(t, FetchTask(t.preset, t.prio, t.card, FALSE, NextRank))
    /\ UNCHANGED <<storeVars, attempts, initRuns, suspendCalls, srs, refreshes, resetCalls>>

\* ----------------------------------------------------- handleDontShowAgain
\* like handleSuspendToggle, handleDontShowAgain is called by no control of
\* the page: suspend, rate 4, suspend again, then the next card after 100 ms
handleDontShowAgain ==
  /\ showCard
  /\ ~isLoading
  /\ Room
  /\ suspendCalls < MaxSuspendCalls
  /\ Event(<< <<"isLoading", TRUE>> >>)
  /\ tasks' = Spawn(Task("dontShow", currentCard.id, cardQueue, priorityPreset,
                         priorities, FALSE, 4, NoReq))
  /\ suspendCalls' = suspendCalls + 1
  /\ UNCHANGED <<storeVars, attempts, initRuns, srs, refreshes, resetCalls>>

\* the store answered the first suspend request: the request toggles the flag
DontShowSuspended ==
  \E t \in Pending :
    /\ t.kind = "dontShow"
    /\ sSusp' = IF t.card \in sSusp THEN sSusp \ {t.card} ELSE sSusp \cup {t.card}
    /\ Commit("DontShowSuspended", << <<"isCurrentCardSuspended", TRUE>> >>)
    /\ tasks' = Become(t, [t EXCEPT !.kind = "dontShowRate"])
    /\ UNCHANGED <<deck, sCount, sLast, sDue, sHistory, sToday, attempts, initRuns, suspendCalls, srs, refreshes, resetCalls>>

\* the store accepted the rating 4; it may lift the suspension when it does
DontShowRated ==
  \E t \in Pending :
    /\ t.kind = "dontShowRate"
    /\ Commit("DontShowRated", <<>>)
    /\ sCount' = [sCount EXCEPT ![t.card] = @ + 1]
    /\ sLast' = [sLast EXCEPT ![t.card] = t.rating]
    /\ sDue' = sDue \ {t.card}
    /\ sSusp' \in {sSusp, sSusp \ {t.card}}
    /\ sHistory' = [sHistory EXCEPT ![t.card] = Append(@, t.rating)]
    /\ sToday' = sToday + 1
    /\ tasks' = Become(t, [t EXCEPT !.kind = "dontShowResuspend",
                                    !.stats = [is_suspended |-> TRUE] @@
                                              ReviewResponse(t.card, t.rating)])
    /\ UNCHANGED <<deck, attempts, initRuns, suspendCalls, srs, refreshes, resetCalls>>

\* the store answered the second suspend request; the stats are kept and the
\* 100 ms timer starts
DontShowResuspended ==
  \E t \in Pending :
    /\ t.kind = "dontShowResuspend"
    /\ sSusp' = IF t.card \in sSusp THEN sSusp \ {t.card} ELSE sSusp \cup {t.card}
    /\ Commit("DontShowResuspended",
              << <<"latestReviewStats", t.stats>>,
                 <<"reviewHistory",
                   mergeDontShowAgain(reviewHistory, DontShowAgainEntry(t.card, t.stats))>> >>)
    /\ tasks' = Become(t, [t EXCEPT !.kind = "dontShowTimer"])
    \* fetchTodaysCount() is called, the effect of latestReviewStats starts
    \* fetchUserProgress
    /\ refreshes' = [progress |-> refreshes.progress + 1, today |-> refreshes.today + 1]
    /\ UNCHANGED <<deck, sCount, sLast, sDue, sHistory, sToday, attempts, initRuns,
                   suspendCalls, srs, resetCalls>>

\* one of the three requests failed: the catch block
DontShowFailed ==
  \E t \in Pending :
    /\ t.kind \in {"dontShow", "dontShowRate", "dontShowResuspend"}
    /\ Commit("DontShowFailed", << <<"error", "dontShow">>, <<"isLoading", FALSE>> >>)
    /\ tasks' = Finish(t)
    /\ Budget
    /\ attempts' = attempts + 1
    /\ UNCHANGED <<storeVars, initRuns, suspendCalls, srs, refreshes, resetCalls>>

\* the 100 ms timer fires: displayNextCardFromQueue(currentCard.id)
DontShowTimer ==
  \E t \in Pending :
    /\ t.kind = "dontShowTimer"
    /\ displayNextCardFromQueue(t)
    /\ UNCHANGED <<storeVars, attempts, initRuns, suspendCalls, srs, refreshes, resetCalls>>

\* ------------------------------------------------------ background reads
\* a fetchUserProgress that the effect of latestReviewStats or
\* handleResetStatsOnly started is answered
ProgressRefreshed ==
  /\ refreshes.progress > 0
  /\ Commit("ProgressRefreshed", << <<"reviewHistory", fetchUserProgress(reviewedCards)>> >>)
  /\ refreshes' = [refreshes EXCEPT !.progress = @ - 1]
  /\ UNCHANGED <<tasks, storeVars, attempts, initRuns, suspendCalls, srs, resetCalls>>

\* the fetchTodaysCount of handleDontShowAgain is answered, or fails
TodayRefreshed ==
  /\ refreshes.today > 0
  /\ \E count \in {sToday, 0} :
       Commit("TodayRefreshed", << <<"todaysReviewCount", count>> >>)
  /\ refreshes' = [refreshes EXCEPT !.today = @ - 1]
  /\ UNCHANGED <<tasks, storeVars, attempts, initRuns, suspendCalls, srs, resetCalls>>

\* ---------------------------------------------------------------- resets
\* the two reset buttons of the statistics panel
handleResetReviewHistory ==
  /\ Room
  /\ resetCalls < MaxResetCalls
  /\ Event(<<>>)
  /\ tasks' = Spawn(Task("reset", currentCard.id, <<>>, priorityPreset, priorities,
                         FALSE, 0, NoReq))
  /\ resetCalls' = resetCalls + 1
  /\ UNCHANGED <<storeVars, attempts, initRuns, suspendCalls, srs, refreshes>>

\* the store deleted the progress of the user: every card is new again; when
\* the handler saw a card, setCurrentCard(prev => prev ? {...prev,
\* review_count: null, ...} : null) is called
ResetDone ==
  \E t \in Pending :
    /\ t.kind = "reset"
    /\ Commit("ResetDone",
              << <<"reviewHistory", <<>> >>, <<"latestReviewStats", NoStats>> >>
              \o (IF t.card # 0 /\ currentCard # NoCard
                  THEN << <<"currentCard", [currentCard EXCEPT !.review_count = Absent]>> >>
                  ELSE <<>>))
    /\ sCount' = [c \in Cards |-> 0]
    /\ sLast' = [c \in Cards |-> 0]
    /\ sDue' = {}
    /\ sSusp' = {}
    /\ sHistory' = [c \in Cards |-> <<>>]
    /\ sToday' = 0
    /\ tasks' = Finish(t)
    /\ UNCHANGED <<deck, attempts, initRuns, suspendCalls, srs, refreshes, resetCalls>>

ResetFailed ==
  \E t \in Pending :
    /\ t.kind = "reset"
    /\ Commit("ResetFailed", << <<"error", "reset">> >>)
    /\ tasks' = Finish(t)
    /\ Budget
    /\ attempts' = attempts + 1
    /\ UNCHANGED <<storeVars, initRuns, suspendCalls, srs, refreshes, resetCalls>>

handleResetStatsOnly ==
  /\ Room
  /\ resetCalls < MaxResetCalls
  /\ Event(<<>>)
  /\ tasks' = Spawn(Task("resetStats", currentCard.id, <<>>, priorityPreset, priorities,
                         FALSE, 0, NoReq))
  /\ resetCalls' = resetCalls + 1
  /\ UNCHANGED <<storeVars, attempts, initRuns, suspendCalls, srs, refreshes>>

ResetStatsConflated == << <<"reviewHistory", <<>> >>, <<"latestReviewStats", NoStats>> >>

\* what handleResetStatsOnly sets itself when the store has answered: nothing
ResetStatsUpdates == <<>>

\* the store cleared its counters and kept the progress of the cards;
\* fetchUserProgress() is called and not awaited
ResetStatsDone ==
  \E t \in Pending :
    /\ t.kind = "resetStats"
    /\ Commit("ResetStatsDone", ResetStatsUpdates)
    /\ sToday' = 0
    /\ tasks' = Finish(t)
    /\ refreshes' = [refreshes EXCEPT !.progress = @ + 1]
    /\ UNCHANGED <<deck, sCount, sLast, sDue, sSusp, sHistory, attempts, initRuns,
                   suspendCalls, srs, resetCalls>>

ResetStatsFailed ==
  \E t \in Pending :
    /\ t.kind = "resetStats"
    /\ Commit("ResetStatsFailed", << <<"error", "resetStats">> >>)
    /\ tasks' = Finish(t)
    /\ Budget
    /\ attempts' = attempts + 1
    /\ UNCHANGED <<storeVars, initRuns, suspendCalls, srs, refreshes, resetCalls>>

\* ------------------------------------------------------ priority controls
PresetSelect ==
  \E p \in {"srs", "custom"} :
    /\ p # priorityPreset
    /\ InitEffectRoom(0)
    /\ Event(<< <<"priorityPreset", p>> >> \o InitEffect(p, priorities))
    /\ tasks' = tasks (+) InitEffectTasks(p, priorities, NextRank)
    /\ initRuns' = InitEffectRuns
    /\ UNCHANGED <<storeVars, attempts, suspendCalls, srs, refreshes, resetCalls>>

handlePriorityChange(prev, category, newPriority) == [prev EXCEPT ![category] = newPriority]

\* the selectors wired to handlePriorityChange alone and never disabled
PrioritySelectNoSwitch ==
  \E category \in InputCategories, level \in InputLevels :
    /\ level # priorities[category]
    /\ InitEffectRoom(0)
    /\ LET np == handlePriorityChange(priorities, category, level) IN
       /\ Event(<< <<"priorities", np>> >> \o InitEffect(priorityPreset, np))
       /\ tasks' = tasks (+) InitEffectTasks(priorityPreset, np, NextRank)
    /\ initRuns' = InitEffectRuns
    /\ UNCHANGED <<storeVars, attempts, suspendCalls, srs, refreshes, resetCalls>>

PrioritySelect ==
  \E category \in InputCategories, level \in InputLevels :
    /\ priorityPreset # "srs"        \* the selectors are disabled in the srs preset
    /\ level # priorities[category]
    /\ InitEffectRoom(0)
    /\ LET np == handlePriorityChange(priorities, category, level) IN
       /\ Event(<< <<"priorities", np>> >>
                 \o (IF priorityPreset # "custom"
                     THEN << <<"priorityPreset", "custom">> >> ELSE <<>>)
                 \o InitEffect("custom", np))
       /\ tasks' = tasks (+) InitEffectTasks("custom", np, NextRank)
    /\ initRuns' = InitEffectRuns
    /\ UNCHANGED <<storeVars, attempts, suspendCalls, srs, refreshes, resetCalls>>

\* --------------------------------------------------------------- buttons
CheckAgain ==
  /\ showEmpty
  /\ Room
  /\ Event(FetchStart)
  /\ tasks' = Spawn(FetchTask(priorityPreset, priorities, 0, FALSE, NextRank))
  /\ UNCHANGED <<storeVars, attempts, initRuns, suspendCalls, srs, refreshes, resetCalls>>

\* "Review Auto/SRS Cards": setPriorityPreset('srs'); fetchNextCard()
ReviewAutoSrs ==
  /\ showEmpty
  /\ priorityPreset # "srs"
  /\ InitEffectRoom(1)
  /\ Event(<< <<"priorityPreset", "srs">> >> \o FetchStart \o InitEffect("srs", priorities))
  /\ tasks' = Spawn(FetchTask(priorityPreset, priorities, 0, FALSE, NextRank))
                (+) InitEffectTasks("srs", priorities, NextRank + 1)
  /\ initRuns' = InitEffectRuns
  /\ UNCHANGED <<storeVars, attempts, suspendCalls, srs, refreshes, resetCalls>>

RetryConnection ==
  /\ showError
  /\ Room
  /\ Event(<< <<"error", "none">>, <<"isLoading", TRUE>>, <<"apiStatus", "checking">> >>)
  /\ tasks' = Spawn(Task("retryConn", 0, <<>>, priorityPreset, priorities, FALSE, 0, NoReq))
  /\ UNCHANGED <<storeVars, attempts, initRuns, suspendCalls, srs, refreshes, resetCalls>>

RetryConnected ==
  \E t \in Pending :
    /\ t.kind = "retryConn"
    /\ Commit("RetryConnected", << <<"apiStatus", "connected">> >> \o FetchStart)
    /\ tasks' = Become(t, FetchTask(t.preset, t.prio, 0, FALSE, NextRank))
    /\ UNCHANGED <<storeVars, attempts, initRuns, suspendCalls, srs, refreshes, resetCalls>>

RetryDisconnected ==
  \E t \in Pending :
    /\ t.kind = "retryConn"
    /\ Commit("RetryDisconnected", << <<"apiStatus", "disconnected">>, <<"error", "connect">>,
                 <<"isLoading", FALSE>> >>)
    /\ tasks' = Finish(t)
    /\ UNCHANGED <<storeVars, attempts, initRuns, suspendCalls, srs, refreshes, resetCalls>>

Next ==
  \/ InitConnected \/ InitDisconnected
  \/ InitDataLoaded
  \/ FetchResponse \/ FetchNewResponse \/ FetchError
  \/ handleAnswerSelect \/ handleSubmitAnswers
  \/ handleRating \/ RatingAccepted \/ RatingFailed \/ RatingTimer
  \/ PreloadStart \/ PreloadResponse \/ PreloadError
  \/ PresetSelect \/ PrioritySelect
  \/ CheckAgain \/ ReviewAutoSrs
  \/ RetryConnection \/ RetryConnected \/ RetryDisconnected

Spec == Init /\ [][Next]_vars

SpecNewDeck == InitNewDeck /\ [][Next]_vars

\* a review session under fair delivery: every timer that was started fires
\* and the store answers every request, with a response or with a failure;
\* the priority controls are left alone
SpecLive ==
  /\ Init \/ InitSession
  /\ [][\/ InitConnected \/ InitDisconnected \/ InitDataLoaded
        \/ FetchResponse \/ FetchNewResponse \/ FetchError
        \/ handleAnswerSelect \/ handleSubmitAnswers
        \/ handleRating \/ RatingAccepted \/ RatingFailed \/ RatingTimer
        \/ PreloadStart \/ PreloadResponse \/ PreloadError
        \/ CheckAgain
        \/ RetryConnection \/ RetryConnected \/ RetryDisconnected]_vars
  /\ WF_vars(RatingTimer)
  /\ WF_vars(FetchNewResponse)
  \* weak fairness of FetchResponse, which is enabled exactly when a batch
  \* request of fetchNextCard is in flight
  /\ \/ []<>(\A t \in Pending : t.kind # "fetch")
     \/ []<><<FetchResponse \/ FetchError>>_vars
  /\ WF_vars(\/ InitConnected \/ InitDisconnected \/ InitDataLoaded
             \/ RatingAccepted \/ RatingFailed
             \/ RetryConnected \/ RetryDisconnected)

\* a review session in which every request succeeds and the priority controls
\* are left alone
NextSession ==
  \/ InitConnected \/ InitDataLoaded
  \/ FetchResponse
  \/ handleAnswerSelect \/ handleSubmitAnswers
  \/ handleRating \/ RatingAccepted \/ RatingTimer
  \/ PreloadStart \/ PreloadResponse

SpecSession == InitSession /\ [][NextSession]_vars

\* a deck of new cards, as many as a batch holds or SessionDeck of them, in the
\* srs preset: the first batch comes from the new-card fallback
InitBatch ==
  \/ Mounted("srs", Cards, NewDeck)
  \/ Mounted("srs", 1..SessionDeck, NewDeck)

NextBatch ==
  \/ InitConnected \/ InitDataLoaded
  \/ FetchResponse \/ FetchNewResponse
  \/ handleAnswerSelect \/ handleSubmitAnswers
  \/ handleRating \/ RatingAccepted \/ RatingTimer
  \/ PreloadStart \/ PreloadResponse

SpecBatch == InitBatch /\ [][NextBatch]_vars

\* the same session with the two suspending handlers wired to a control
NextSuspend ==
  \/ NextSession
  \/ handleSuspendToggle \/ SuspendAnswered \/ SuspendTimer
  \/ handleDontShowAgain \/ DontShowSuspended \/ DontShowRated
  \/ DontShowResuspended \/ DontShowTimer

SpecSuspend == InitSession /\ [][NextSuspend]_vars

\* the session with the suspending handlers, the failures of their requests
\* and the background reads that refresh the history and the count of today
NextHistory ==
  \/ NextSuspend
  \/ DontShowFailed
  \/ ProgressRefreshed \/ TodayRefreshed

SpecHistory == InitSession /\ [][NextHistory]_vars

\* the session with the two reset buttons
NextReset ==
  \/ NextSession
  \/ ProgressRefreshed
  \/ handleResetReviewHistory \/ ResetDone \/ ResetFailed
  \/ handleResetStatsOnly \/ ResetStatsDone \/ ResetStatsFailed

SpecReset == InitSession /\ [][NextReset]_vars

\* ------------------------------------------------- the SRS numbers alone
\* the argument of a call: a store response to a rating of a card, with every
\* combination of numbers, or null
ResponseInputs ==
  [stability : StabilityInputs, difficulty : DifficultyInputs,
   review_count : ReviewCountInputs, next_review : {Absent},
   rating_history : HistoryInputs]

NoResult ==
  [stability |-> Absent, difficulty |-> Absent, review_count |-> Absent,
   next_review |-> Absent, rating_history |-> AbsentHistory]

InitAdjust ==
  /\ MountedPage("srs", 1..SmallDeck, StartedDeck)
  /\ \E response \in ResponseInputs \cup {Null}, r \in RatingInputs, new \in BOOLEAN,
        card \in CardInputs :
       srs = [state |-> "response", response |-> response,
              rating |-> r, isNew |-> new, card |-> card, out |-> NoResult]

\* adjustSrsParameters is applied to the response: it returns or throws
AdjustCall ==
  /\ srs.state = "response"
  /\ LET result == adjustSrsParameters(srs.response, srs.rating, srs.isNew) IN
     srs' = [srs EXCEPT !.state = IF Threw(result) THEN "thrown" ELSE "adjusted",
                        !.out = result]
  /\ UNCHANGED <<uiVars, tasks, last, storeVars, attempts, initRuns, suspendCalls,
               refreshes, resetCalls>>

\* the response arrives in handleRating, called by the four rating buttons
RatingStored ==
  /\ srs.state = "response"
  /\ srs.response # Null
  /\ srs.rating \in 1..4
  /\ srs' = [srs EXCEPT !.state = "handleRating",
                        !.out = RatingStats(srs.response, srs.rating, srs.card)]
  /\ UNCHANGED <<uiVars, tasks, last, storeVars, attempts, initRuns, suspendCalls,
               refreshes, resetCalls>>

\* the response arrives in handleDontShowAgain, which always rates 4
DontShowAgainStored ==
  /\ srs.state = "response"
  /\ srs.response # Null
  /\ srs.rating = 4
  /\ srs' = [srs EXCEPT !.state = "handleDontShowAgain",
                        !.out = DontShowAgainStats(srs.response, srs.card)]
  /\ UNCHANGED <<uiVars, tasks, last, storeVars, attempts, initRuns, suspendCalls,
               refreshes, resetCalls>>

NextAdjust == AdjustCall \/ RatingStored \/ DontShowAgainStored

SpecAdjust == InitAdjust /\ [][NextAdjust]_vars

\* ---------------------------------------------------- the merges alone
\* a history of at most two cards as fetchUserProgress leaves it, and the
\* store response to a rating of one of them
InitMerge ==
  LET MergeIds == {1, 2}
      StoredInputs ==
        {ReviewEntry(c, Absent, Len(h), FALSE, h) : c \in MergeIds, h \in {<<3>>, <<3, 3>>}}
      MergeHistories ==
        {<<>>} \cup {<<a>> : a \in StoredInputs} \cup {<<a, b>> : a, b \in StoredInputs}
      MergeResponses ==
        [card_id : MergeIds, review_count : {2, 3}, last_rating : {3, 4},
         rating_history : {AbsentHistory, <<3, 4>>, <<3, 3, 4>>}]
  IN
  /\ MountedPage("srs", 1..SmallDeck, StartedDeck)
  /\ \E history \in MergeHistories, response \in MergeResponses,
        path \in {"updateReviewHistoryLocally", "handleDontShowAgain"} :
       /\ \A i, j \in 1..Len(history) : i # j => history[i].cardId # history[j].cardId
       /\ path = "handleDontShowAgain" => response.last_rating = 4
       /\ srs = [state |-> "merge", path |-> path, response |-> response,
                 history |-> history, merges |-> 0, once |-> <<>>]

MergeStep(merged) ==
  /\ srs.state = "merge"
  /\ srs.merges < 2
  /\ srs' = [srs EXCEPT !.history = merged, !.merges = @ + 1,
                        !.once = IF srs.merges = 0 THEN merged ELSE @]
  /\ UNCHANGED <<uiVars, tasks, last, storeVars, attempts, initRuns, suspendCalls,
                 refreshes, resetCalls>>

\* updateReviewHistoryLocally(cardId, rating, response.data) of handleRating
MergeRating ==
  /\ srs.state = "merge"
  /\ srs.path = "updateReviewHistoryLocally"
  /\ MergeStep(updateReviewHistoryLocally(srs.history, srs.response.card_id,
                                          srs.response.last_rating, srs.response))

\* the setReviewHistory of handleDontShowAgain
MergeDontShowAgain ==
  /\ srs.state = "merge"
  /\ srs.path = "handleDontShowAgain"
  /\ MergeStep(mergeDontShowAgain(srs.history,
                                  DontShowAgainEntry(srs.response.card_id, srs.response)))

NextMerge == MergeRating \/ MergeDontShowAgain

SpecMerge == InitMerge /\ [][NextMerge]_vars

\* ------------------------------------------------- the statistics panel
\* timestamps count half days: format(startOfDay(parseISO(timestamp)),
\* 'yyyy-MM-dd') names the day the timestamp falls on
\* calculateDayStreak(reviews) of UserStatsPanel, run at the time now
calculateDayStreak(reviews, now) ==
  LET dayOf(timestamp) == timestamp \div 2
      reviewDays == {dayOf(reviews[i].timestamp) :
                       i \in {j \in 1..Len(reviews) : reviews[j].timestamp # Absent}}
      \* Array.from(reviewDays).sort().reverse(): newest first
      sortedDays == [i \in 1..Cardinality(reviewDays) |->
                       CHOOSE d \in reviewDays :
                         Cardinality({e \in reviewDays : e > d}) = i - 1]
      todayFormatted == dayOf(now)
      counted[i \in 1..Len(sortedDays)] ==
        IF i < Len(sortedDays) /\ sortedDays[i + 1] = sortedDays[i] - 1
        THEN 1 + counted[i + 1] ELSE 1
  IN  IF Len(reviews) = 0 THEN 0
      ELSE IF reviewDays = {} THEN 0
      ELSE IF sortedDays[1] # todayFormatted THEN 0
      ELSE counted[1]

retentionRateEasyOnly(history) ==
  LET total == Len(SelectSeq(history, LAMBDA r : r.rating_history # <<>>)) IN
  IF total > 0
  THEN (2000 * Len(SelectSeq(history, LAMBDA r : 4 \in {r.rating_history[i] :
                                      i \in 1..Len(r.rating_history)})) + total)
         \div (2 * total)
  ELSE 0

\* retentionRate of UserStatsPanel, in tenths of a percent: toFixed(1) rounds
\* to one decimal
retentionRate(history) ==
  LET retentionStats[n \in 0..Len(history)] ==
        IF n = 0 THEN [correctCount |-> 0, totalCount |-> 0]
        ELSE LET acc == retentionStats[n - 1]
                 ratings == OrEmpty(history[n].rating_history)
             IN  [correctCount |-> acc.correctCount
                    + Len(SelectSeq(ratings, LAMBDA rating : rating = 3 \/ rating = 4)),
                  totalCount |-> acc.totalCount + Len(ratings)]
      stats == retentionStats[Len(history)]
  IN  IF stats.totalCount > 0
      THEN (2000 * stats.correctCount + stats.totalCount) \div (2 * stats.totalCount)
      ELSE 0

\* a history of ratings made over the days 0..MaxDay, and the panel drawn
\* from the records it left
InitStats ==
  /\ MountedPage("srs", 1..SmallDeck, NewDeck)
  /\ srs = [state |-> "history", now |-> 0, history |-> <<>>, ratings |-> 0, days |-> {},
             streak |-> Absent, retentionRate |-> Absent]

\* a day passes
StatsNextDay ==
  /\ srs.state = "history"
  /\ srs.now \div 2 < MaxDay
  /\ srs' = [srs EXCEPT !.now = 2 * ((@ \div 2) + 1)]
  /\ UNCHANGED <<uiVars, tasks, last, storeVars, attempts, initRuns, suspendCalls,
                 refreshes, resetCalls>>

\* a card is rated and the store's response is merged by
\* updateReviewHistoryLocally, timestamp: new Date().toISOString()
StatsRating ==
  /\ srs.state = "history"
  /\ srs.ratings < MaxEvents
  /\ \E cardId \in 1..SmallDeck, rating \in 1..4, 
        timestamp \in {t \in {srs.now, srs.now + 1} : t \div 2 = srs.now \div 2} :
       LET k == findIndex(srs.history, cardId)
           before == IF k = 0 THEN <<>> ELSE srs.history[k].rating_history
           responseData == [card_id |-> cardId, review_count |-> Len(before) + 1,
                            last_rating |-> rating,
                            rating_history |-> Append(before, rating)]
           merged == updateReviewHistoryLocally(srs.history, cardId, rating, responseData)
           i == findIndex(merged, cardId)
       IN  srs' = [srs EXCEPT
                     !.now = timestamp,
                     !.history = [merged EXCEPT ![i] = @ @@ [timestamp |-> timestamp]],
                     !.ratings = @ + 1,
                     !.days = @ \cup {timestamp \div 2}]
  /\ UNCHANGED <<uiVars, tasks, last, storeVars, attempts, initRuns, suspendCalls,
                 refreshes, resetCalls>>

\* the panel computes its statistics from reviewHistory
UserStatsPanel ==
  /\ srs.state = "history"
  /\ srs' = [srs EXCEPT !.state = "UserStatsPanel",
                        !.streak = calculateDayStreak(srs.history, srs.now),
                        !.retentionRate = retentionRate(srs.history)]
  /\ UNCHANGED <<uiVars, tasks, last, storeVars, attempts, initRuns, suspendCalls,
                 refreshes, resetCalls>>

SpecStats == InitStats /\ [][StatsNextDay \/ StatsRating \/ UserStatsPanel]_vars

\* ------------------------------------------------ the card statistics page
\* CardStatsPage keeps the list reviewedCards (here: the is_suspended flag of
\* each card), the card of the detail panel selectedCardDetails, the set
\* selectedCards of the batch mode, and has at most one suspend toggle and
\* one batch in flight (the buttons are disabled meanwhile)
\* handleCardSelect(cardSummary): a click on a row of the list
handleCardSelect ==
  /\ srs.state = "CardStatsPage"
  /\ \E cardId \in DOMAIN srs.reviewedCards :
       srs' = IF srs.batchMode
              THEN [srs EXCEPT !.selectedCards =
                      IF cardId \in @ THEN @ \ {cardId} ELSE @ \cup {cardId}]
              ELSE [srs EXCEPT !.selectedCardDetails =
                      [card_id |-> cardId, is_suspended |-> srs.reviewedCards[cardId]]]
  /\ UNCHANGED <<uiVars, tasks, last, storeVars, attempts, initRuns, suspendCalls,
                 refreshes, resetCalls>>

\* handleSuspendToggle(cardId) of CardStatsPage: the click on the button of
\* the detail panel, the answer of the store, the failure of the request
CardStatsPage_handleSuspendToggle ==
  /\ srs.state = "CardStatsPage"
  /\ \/ /\ srs.selectedCardDetails # Null
        /\ ~srs.actionLoading
        /\ srs' = [srs EXCEPT !.actionLoading = TRUE,
                              !.toggle = srs.selectedCardDetails.card_id]
     \/ /\ srs.toggle # 0
        /\ LET cardId == srs.toggle
               is_suspended == cardId \notin srs.suspended
           IN  srs' = [srs EXCEPT
                         !.suspended = IF is_suspended THEN @ \cup {cardId}
                                       ELSE @ \ {cardId},
                         !.selectedCardDetails = [@ EXCEPT !.is_suspended = is_suspended],
                         !.reviewedCards = [@ EXCEPT ![cardId] = is_suspended],
                         !.actionLoading = FALSE,
                         !.toggle = 0]
     \/ /\ srs.toggle # 0
        /\ srs' = [srs EXCEPT !.error = "toggle", !.actionLoading = FALSE, !.toggle = 0]
  /\ UNCHANGED <<uiVars, tasks, last, storeVars, attempts, initRuns, suspendCalls,
                 refreshes, resetCalls>>

\* handleBatchUnsuspend: the click on "Unsuspend Selected", and the
\* continuation after Promise.all, when every request of the batch has been
\* answered or has failed
handleBatchUnsuspend ==
  /\ srs.state = "CardStatsPage"
  /\ \/ /\ srs.batchMode
        /\ srs.selectedCards # {}
        /\ ~srs.batchActionLoading
        /\ srs' = [srs EXCEPT
                     !.batchActionLoading = TRUE,
                     !.error = "none",
                     !.failed = {},
                     !.batch = [selectedCards |-> srs.selectedCards,
                                reviewedCards |-> srs.reviewedCards,
                                selectedCardDetails |-> srs.selectedCardDetails]]
     \/ /\ srs.batch # Null
        /\ LET requested == {c \in srs.batch.selectedCards : srs.batch.reviewedCards[c]}
           IN  \E failed \in SUBSET requested :
                 LET succeeded == requested \ failed IN
                 srs' = [srs EXCEPT
                           \* the endpoint toggles the flag of the store
                           !.suspended = (@ \ succeeded) \cup (succeeded \ @),
                           !.reviewedCards =
                             [c \in DOMAIN @ |-> IF c \in succeeded THEN FALSE ELSE @[c]],
                           !.selectedCardDetails =
                             IF /\ srs.batch.selectedCardDetails # Null
                                /\ srs.batch.selectedCardDetails.card_id
                                     \in srs.batch.selectedCards
                             THEN [@ EXCEPT !.is_suspended = FALSE]
                             ELSE @,
                           !.selectedCards = {},
                           !.error = "batch",
                           !.batchActionLoading = FALSE,
                           !.batchMode = FALSE,
                           !.failed = failed,
                           !.batch = Null]
  /\ UNCHANGED <<uiVars, tasks, last, storeVars, attempts, initRuns, suspendCalls,
                 refreshes, resetCalls>>

\* the page after fetchReviewedCards loaded the list from the store
InitCardStats ==
  \E suspended \in SUBSET (1..SmallDeck) :
    /\ MountedPage("srs", 1..SmallDeck, [c \in Cards |-> 1])
    /\ srs = [state |-> "CardStatsPage",
              reviewedCards |-> [c \in 1..SmallDeck |-> c \in suspended],
              selectedCardDetails |-> Null, selectedCards |-> {},
              batchMode |-> FALSE, actionLoading |-> FALSE,
              batchActionLoading |-> FALSE, error |-> "none",
              suspended |-> suspended, toggle |-> 0, batch |-> Null, failed |-> {}]

\* the clicks on the rows, the "Batch Selection Mode" checkbox and the two
\* suspending handlers
SpecCardStats ==
  /\ InitCardStats
  /\ [][\/ handleCardSelect
        \/ CardStatsPage_handleSuspendToggle
        \/ handleBatchUnsuspend
        \/ /\ srs.state = "CardStatsPage"
           /\ srs' = [srs EXCEPT !.batchMode = ~@,
                                 !.selectedCards = IF srs.batchMode THEN {} ELSE @]
           /\ UNCHANGED <<uiVars, tasks, last, storeVars, attempts, initRuns,
                          suspendCalls, refreshes, resetCalls>>]_vars

\* ================================================================ claims

\* C1: in every reachable state the ids of the displayed card and of the
\* cards in cardQueue are pairwise distinct
C1_DistinctIds ==
  LET ids == (IF currentCard = NoCard THEN <<>> ELSE <<currentCard.id>>)
             \o [i \in 1..Len(cardQueue) |-> cardQueue[i].id]
  IN  \A i, j \in 1..Len(ids) : i # j => ids[i] # ids[j]

\* C2: a card in the buffer (the prefetch appends to it) leaves the buffer only
\* by being served or by a synchronous batch fetch replacing the buffer: the
\* buffer written by the serve step of the post-rating timer still holds every
\* card that was in the buffer and is not the card it serves
C2_ServeKeepsPrefetched ==
  [][last'.op = "displayNextCardFromQueue" =>
       \A i \in 1..Len(cardQueue) :
          \/ cardQueue[i] = currentCard'
          \/ \E j \in 1..Len(cardQueue') : cardQueue'[j] = cardQueue[i]]_vars

\* C3: when two next-card operations overlap, the answer to the one issued
\* earlier is discarded if it arrives after the later one has assigned the
\* displayed card: it changes neither the displayed card nor the buffer
C3_OldAnswerDiscarded ==
  [][last'.stale => currentCard' = currentCard /\ cardQueue' = cardQueue]_vars

\* C4: the completion of a prefetch, successful or failed, leaves currentCard,
\* selectedAnswers, isSubmitted, latestReviewStats, isLoading and error
\* unchanged; the old buffer is a prefix of the new one, and the buffer is
\* unchanged when the prefetch failed or its batch was empty
C4_PrefetchFrame ==
  [][last'.op \in {"PreloadResponse", "PreloadError"} =>
       /\ UNCHANGED <<currentCard, selectedAnswers, isSubmitted,
                      latestReviewStats, isLoading, error>>
       /\ Len(cardQueue) <= Len(cardQueue')
       /\ SubSeq(cardQueue', 1, Len(cardQueue)) = cardQueue
       /\ last'.op = "PreloadError" => cardQueue' = cardQueue
       /\ \E t \in Pending :
            /\ t.kind = "preload"
            /\ tasks' = Finish(t)
            /\ StoreBatches(t.req) = {{}} => cardQueue' = cardQueue]_vars

\* a prefetch has appended its batch behind a card that was waiting in the buffer
C4_Witness ==
  /\ last.op = "PreloadResponse"
  /\ Len(cardQueue) >= 2
  /\ currentCard # NoCard

\* C5: every display path clears selectedAnswers, isSubmitted and
\* latestReviewStats before it sets currentCard: no view flushed by a step
\* shows the card the step newly displays together with isSubmitted, a
\* selection or review stats
C5_FlagsResetBeforeCard ==
  \A i \in 1..Len(last.views) :
    /\ ~last.views[i].isSubmitted
    /\ last.views[i].selected = {}
    /\ last.views[i].stats = 0

\* the post-rating timer has served the next card from the buffer
C5_Witness ==
  /\ last.op = "displayNextCardFromQueue"
  /\ last.views # <<>>
  /\ last.views[1].card = currentCard.id

\* C6: while a rating submission is in flight the displayed card does not
\* change
C6_CardKeptWhileRating ==
  [][(\E t \in Pending : t.kind = "rate") => currentCard' = currentCard]_vars

\* C7: every batch request, synchronous or prefetch, is built from the preset
\* and the priorities in effect when it is sent
C7_RequestFromCurrentPolicy ==
  [][\A u \in BagToSet(tasks') :
       (/\ u.req.endpoint # "none"
        /\ ~\E t \in Pending : t.kind = u.kind /\ t.req = u.req)
       => IF priorityPreset' = "custom"
          THEN u.req.endpoint = "next" /\ u.req.prio = priorities'
          ELSE u.req.endpoint \in {"due", "new"}]_vars

\* C8: when the post-rating timer finds the buffer empty, the batch request
\* it sends excludes the id of the card that was just rated, in both presets
C8_FetchExcludesRated ==
  [][last'.op = "displayNextCardFromQueue" =>
       \A u \in BagToSet(tasks') :
          (u.kind = "fetch" /\ u \notin Pending)
          => \E t \in Pending : t.kind = "rateTimer" /\ u.req.exclude = t.card]_vars

\* C9: the answer to the batch request of fetchNextCard leads to the new-card
\* fallback request exactly when the preset of the operation is srs and the
\* batch is empty, with the same limit and the same excluded id; in the
\* custom preset an empty batch sends no further request, leaves no
\* displayed card and an empty buffer, and reports no error
C9_FallbackRule ==
  [][last'.op = "FetchResponse" =>
       \E t \in Pending :
         /\ t.kind = "fetch"
         /\ LET empty == StoreBatches(t.req) = {{}}
                fallback == [t EXCEPT !.kind = "fetchNew",
                                      !.req = [endpoint |-> "new",
                                               exclude |-> t.req.exclude,
                                               prio |-> defaultPriorities,
                                               limit |-> t.req.limit]]
            IN  IF t.preset = "srs" /\ empty
                THEN /\ t.req.endpoint = "due"
                     /\ t.req.limit = 5
                     /\ tasks' = Become(t, fallback)
                ELSE /\ tasks' = Retire(t, ~empty)
                     /\ empty => /\ currentCard' = NoCard
                                 /\ cardQueue' = <<>>
                                 /\ error' = error]_vars

\* the fallback request for new cards is in flight after a rated card was
\* excluded from an empty due batch
C9_Witness ==
  \E t \in Pending :
    /\ t.kind = "fetchNew"
    /\ t.req.endpoint = "new"
    /\ t.req.exclude # 0
    /\ t.preset = "srs"

\* C10: while the preset is custom and the priority of new cards is Off, no
\* card that was never reviewed becomes the displayed card
C10_NoNewCardWhenOff ==
  [][(/\ priorityPreset = "custom" /\ priorities.new = "Off"
      /\ priorityPreset' = "custom" /\ priorities'.new = "Off"
      /\ currentCard' # currentCard
      /\ currentCard' # NoCard)
     => currentCard'.review_count # 0]_vars

\* C11: a card that is suspended in the store (it was suspended during the
\* session and not unsuspended) is never again set as the displayed card:
\* not by the answer to a batch request and not by a serve from the buffer
C11_SuspendedNeverDisplayed ==
  [][/\ (currentCard' # currentCard /\ currentCard' # NoCard)
          => currentCard'.id \notin sSusp
     /\ \A t \in Pending :
          (/\ t.kind \in {"rateTimer", "dontShowTimer"}
           /\ Len(t.q) > 0
           /\ last'.op = "displayNextCardFromQueue"
           /\ tasks' \in {Become(t, PreloadTimer(t, Head(t.q))), Finish(t)})
          => Head(t.q).id \notin sSusp]_vars

\* C12: once no card is displayed after an empty batch or a failed fetch, the
\* buffer stays empty: in every reachable state, no displayed card implies an
\* empty buffer
C12_NoCardNoBuffer == currentCard = NoCard => cardQueue = <<>>

\* C13: whenever displayNextCardFromQueue serves a card from a non-empty
\* buffer and at most 3 cards remain in the buffer after the pop, a background
\* prefetch is scheduled
C13_PrefetchWhenThreeRemain ==
  [][\A t \in Pending :
       (/\ t.kind \in {"rateTimer", "dontShowTimer"}
        /\ Len(t.q) > 0
        /\ last'.op = "displayNextCardFromQueue"
        /\ tasks' \in {Become(t, PreloadTimer(t, Head(t.q))), Finish(t)}
        /\ Len(cardQueue') <= 3)
       => tasks' = Become(t, PreloadTimer(t, Head(t.q)))]_vars

\* C14: a serve from a non-empty buffer makes the former head of the buffer
\* the displayed card, leaves the rest of the buffer in its order, and sends
\* no batch request itself
C14_ServePopsHead ==
  [][\A t \in Pending :
       (/\ t.kind \in {"rateTimer", "dontShowTimer"}
        /\ Len(t.q) > 0
        /\ last'.op = "displayNextCardFromQueue"
        /\ tasks' \in {Become(t, PreloadTimer(t, Head(t.q))), Finish(t)}
        /\ cardQueue # <<>>)
       => /\ currentCard' = Head(cardQueue)
          /\ cardQueue' = Tail(cardQueue)
          /\ \A u \in BagToSet(tasks') : u.req.endpoint # "none" => u \in Pending]_vars

\* C15: after a batch request of fetchNextCard answered with n >= 1 cards, the
\* displayed card followed by the buffer is a permutation of the batch: the
\* buffer has n - 1 entries, none is the displayed card, and no card of the
\* batch is lost or duplicated
C15_BatchPermuted ==
  [][\A t \in Pending :
       (/\ t.kind \in {"fetch", "fetchNew"}
        /\ last'.op \in {"FetchResponse", "FetchNewResponse"}
        /\ tasks' = Retire(t, TRUE))
       => \E S \in StoreBatches(t.req) :
            /\ S # {}
            /\ Len(cardQueue') = Cardinality(S) - 1
            /\ \A i \in 1..Len(cardQueue') : cardQueue'[i] # currentCard'
            /\ {currentCard'} \cup {cardQueue'[i] : i \in 1..Len(cardQueue')}
                 = {CardObj(c) : c \in S}]_vars

\* the new-card fallback returned 3 cards: one is displayed, two are buffered
C15_Witness ==
  /\ last.op = "FetchNewResponse"
  /\ deck = 1..3
  /\ currentCard # NoCard
  /\ Len(cardQueue) = 2

\* C16: after any change of a per-class priority the preset is custom, and
\* while the preset stays srs no per-class priority changes
C16_PriorityChangeMeansCustom ==
  [][/\ priorities' # priorities => priorityPreset' = "custom"
     /\ (priorityPreset = "srs" /\ priorityPreset' = "srs") => priorities' = priorities]_vars

\* the user has switched new cards off in a priority selector
C16_Witness ==
  /\ last.op = "event"
  /\ priorities.new = "Off"
  /\ priorities # defaultPriorities
  /\ priorityPreset = "custom"

\* C17: for every successful rating, through handleRating as well as through
\* handleDontShowAgain, the stability, difficulty and next review that are
\* kept are those of adjustSrsParameters applied once to the store response
C17_AdjustedOnceOnBothPaths ==
  srs.state \in {"handleRating", "handleDontShowAgain"} =>
    LET adjusted == adjustSrsParameters(srs.response, srs.rating, isNewCard(srs.card))
    IN  /\ srs.out.stability = adjusted.stability
        /\ srs.out.difficulty = adjusted.difficulty
        /\ srs.out.next_review = adjusted.next_review

\* C18: for every rating and every input with isNew true or review_count at
\* most 1, adjustSrsParameters returns the stability 0.1, 0.5, 1.0, 3.0 days
\* for the ratings 1, 2, 3, 4, whatever the input stability
C18_NewCardStability ==
  (/\ srs.state = "adjusted"
   /\ srs.isNew \/ srs.response.review_count \in {0, 1})
  => srs.out.stability = CASE srs.rating = 1 -> 100 [] srs.rating = 2 -> 500
                           [] srs.rating = 3 -> 1000 [] OTHER -> 3000

\* a card that is not new but was reviewed once, with 100 days of stability,
\* rated 4: the result is 3 days
C18_Witness ==
  /\ srs.state = "adjusted"
  /\ ~srs.isNew
  /\ srs.response.review_count = 1
  /\ srs.response.stability = 100000
  /\ srs.rating = 4
  /\ srs.out.stability = 3000

\* C19: for every input with isNew false and review_count above 1,
\* adjustSrsParameters returns min(CAP[r], max(MIN_STABILITY[r], stability x
\* MULT[r])): at most 180, 60, 14 days for r = 4, 3, 2, never below the
\* minimum of the rating, and 2.0 days for a stability of 10 days rated 1
C19_ReviewedCardStability ==
  (/\ srs.state = "adjusted"
   /\ ~srs.isNew
   /\ srs.response.review_count > 1
   /\ srs.response.stability # Absent)
  => LET r == srs.rating
         s == srs.response.stability
         mult == CASE r = 1 -> 2 [] r = 2 -> 10 [] r = 3 -> 25 [] OTHER -> 40
         floor == CASE r = 1 -> 100 [] r = 2 -> 500 [] r = 3 -> 1000 [] OTHER -> 3000
         raised == IF (s * mult) \div 10 < floor THEN floor ELSE (s * mult) \div 10
         expected == CASE r = 4 -> (IF raised > 180000 THEN 180000 ELSE raised)
                       [] r = 3 -> (IF raised > 60000 THEN 60000 ELSE raised)
                       [] r = 2 -> (IF raised > 14000 THEN 14000 ELSE raised)
                       [] OTHER -> raised
     IN  /\ (s * mult) % 10 = 0
         /\ srs.out.stability = expected
         /\ r = 4 => srs.out.stability <= 180000
         /\ r = 3 => srs.out.stability <= 60000
         /\ r = 2 => srs.out.stability <= 14000
         /\ srs.out.stability >= floor
         /\ (s = 10000 /\ r = 1) => srs.out.stability = 2000

\* a reviewed card with 30 days of stability rated 3 meets the cap of 60 days
C19_Witness ==
  /\ srs.state = "adjusted"
  /\ ~srs.isNew
  /\ srs.response.review_count = 5
  /\ srs.response.stability = 30000
  /\ srs.rating = 3
  /\ srs.out.stability = 60000

\* C20: adjustSrsParameters returns the difficulty min(d + 0.05, 0.9) for
\* rating 1, max(d - 0.05, 0.1) for rating 4 and d for ratings 2 and 3, where
\* d is the input difficulty, or 0.3 when it is absent; for an input
\* difficulty in [0, 1] the result is in [0, 1]
C20_Difficulty ==
  srs.state = "adjusted" =>
    LET d == IF srs.response.difficulty = Absent THEN 30 ELSE srs.response.difficulty
        up == IF d + 5 < 90 THEN d + 5 ELSE 90
        down == IF d - 5 > 10 THEN d - 5 ELSE 10
    IN  /\ srs.out.difficulty = CASE srs.rating = 1 -> up [] srs.rating = 4 -> down
                                  [] OTHER -> d
        /\ (d >= 0 /\ d <= 100) => (srs.out.difficulty >= 0 /\ srs.out.difficulty <= 100)

\* C21: for every input and every rating r, the state adjustSrsParameters
\* returns has the rating_history of its input with r appended (one entry
\* longer, r last, the earlier entries unchanged) and the review_count of its
\* input plus one
C21_HistoryAppended ==
  srs.state = "adjusted" =>
    LET h == IF srs.response.rating_history = AbsentHistory THEN <<>>
             ELSE srs.response.rating_history
        n == IF srs.response.review_count = Absent THEN 0 ELSE srs.response.review_count
    IN  /\ srs.out.rating_history = Append(h, srs.rating)
        /\ srs.out.review_count = n + 1

\* C22: for every rating outside 1..4 a call of adjustSrsParameters throws,
\* for new and for reviewed cards: no state is returned
C22_InvalidRatingFails ==
  (srs.state \in {"adjusted", "thrown"} /\ srs.rating \notin {1, 2, 3, 4})
  => /\ srs.state = "thrown"
     /\ Threw(srs.out)

\* the rating 5 of a reviewed card with 10 days of stability: the product is
\* no number and the date of the next review cannot be written
C22_Witness ==
  /\ srs.state = "thrown"
  /\ srs.rating = 5
  /\ srs.response # Null
  /\ ~srs.isNew
  /\ srs.response.review_count = 5
  /\ srs.response.stability = 10000
  /\ srs.out = Thrown("RangeError")

\* C23: adjustSrsParameters(null, r, true) returns a state for every rating r
\* in 1..4: the stability is MIN_STABILITY[r] and the difficulty is derived
\* from the default 0.3
C23_NullStateAccepted ==
  (/\ srs.state \in {"adjusted", "thrown"}
   /\ srs.response = Null
   /\ srs.isNew
   /\ srs.rating \in 1..4)
  => /\ srs.state = "adjusted"
     /\ srs.out.stability = MIN_STABILITY[srs.rating]
     /\ srs.out.difficulty = CASE srs.rating = 1 -> 35 [] srs.rating = 4 -> 25
                               [] OTHER -> 30

\* C24: reviewHistory holds at most one record per card id in every reachable
\* state, and the merge after a rating replaces the record of the card in
\* place, or appends one record when there is none, and leaves every other
\* record and the order of the records unchanged
C24_OneRecordPerCard ==
  [][/\ \A i, j \in 1..Len(reviewHistory') :
          i # j => reviewHistory'[i].cardId # reviewHistory'[j].cardId
     /\ \A t \in Pending :
          (\/ /\ t.kind = "rate"
              /\ last'.op = "RatingAccepted"
              /\ tasks' = Become(t, [t EXCEPT !.kind = "rateTimer"])
           \/ /\ t.kind = "dontShowResuspend"
              /\ last'.op = "DontShowResuspended"
              /\ tasks' = Become(t, [t EXCEPT !.kind = "dontShowTimer"]))
          => LET old == {i \in 1..Len(reviewHistory) : reviewHistory[i].cardId = t.card}
                 n == Len(reviewHistory)
             IN  /\ Len(reviewHistory') = IF old = {} THEN n + 1 ELSE n
                 /\ \A i \in 1..n :
                      IF i \in old THEN reviewHistory'[i].cardId = t.card
                      ELSE reviewHistory'[i] = reviewHistory[i]
                 /\ old = {} => reviewHistory'[n + 1].cardId = t.card]_vars

\* a rating has replaced the first record of the history in place while the
\* record of another card stands behind it
C24_Witness ==
  /\ last.op = "RatingAccepted"
  /\ Len(reviewHistory) >= 2
  /\ reviewHistory[1].rating = 3
  /\ reviewHistory[1].review_count = 2
  /\ reviewHistory[2].cardId # reviewHistory[1].cardId

\* C25: merging is idempotent on both merge paths: merging the same card id
\* and store response a second time leaves reviewHistory as the first merge
\* left it, the rating_history of the merged record included
C25_MergeIdempotent ==
  (srs.state = "merge" /\ srs.merges = 2) => srs.history = srs.once

\* C26: every record of reviewHistory with at least one rating has
\* review_count equal to the length of its rating_history, after any sequence
\* of ratings of both handlers and history refreshes, the store's responses
\* satisfying the same; and a rating leaves the earlier rating_history of the
\* card as a prefix of the new one
C26_CountIsHistoryLength ==
  [][/\ \A i \in 1..Len(reviewHistory') :
          reviewHistory'[i].rating_history # <<>>
          => reviewHistory'[i].review_count = Len(reviewHistory'[i].rating_history)
     /\ last'.op \in {"RatingAccepted", "DontShowResuspended"}
          => \A i \in 1..Len(reviewHistory), j \in 1..Len(reviewHistory') :
               reviewHistory[i].cardId = reviewHistory'[j].cardId
               => LET h == reviewHistory[i].rating_history
                      g == reviewHistory'[j].rating_history
                  IN  Len(h) <= Len(g) /\ SubSeq(g, 1, Len(h)) = h]_vars

\* C29: when a step of handleDontShowAgain fails, the error names the step
\* that failed, a suspension the store applied is shown, and a rating the
\* store accepted before the failure is in latestReviewStats, in
\* reviewHistory and in todaysReviewCount
C29_PartialFailureReported ==
  [][\A t \in Pending :
       (/\ t.kind \in {"dontShow", "dontShowRate", "dontShowResuspend"}
        /\ last'.op = "DontShowFailed"
        /\ tasks' = Finish(t))
       => /\ error' = CASE t.kind = "dontShow" -> "suspend"
                        [] t.kind = "dontShowRate" -> "review"
                        [] OTHER -> "resuspend"
          /\ t.kind # "dontShow" => isCurrentCardSuspended'
          /\ t.kind = "dontShowResuspend"
               => /\ latestReviewStats'.card_id = t.card
                  /\ \E i \in 1..Len(reviewHistory') :
                       /\ reviewHistory'[i].cardId = t.card
                       /\ reviewHistory'[i].review_count = sCount[t.card]
                  /\ todaysReviewCount' = sToday]_vars

\* C27: after a successful full reset reviewHistory is empty, latestReviewStats
\* is null and neither the displayed card nor a card of the buffer has a
\* review count; a failed reset changes none of these and sets the error
C27_ResetMakesCardsNew ==
  [][/\ last'.op = "ResetDone"
          => /\ reviewHistory' = <<>>
             /\ latestReviewStats' = NoStats
             /\ currentCard'.review_count \in {0, Absent}
             /\ \A i \in 1..Len(cardQueue') : cardQueue'[i].review_count \in {0, Absent}
     /\ last'.op = "ResetFailed"
          => /\ UNCHANGED <<reviewHistory, latestReviewStats, currentCard, cardQueue>>
             /\ error' # "none"]_vars

\* C28: no step of a stats-only reset (the click, the answer of the store, the
\* failure, the refresh of the history it starts) changes the displayed card,
\* the buffer, latestReviewStats or todaysReviewCount; the refresh replaces
\* reviewHistory with the history of the store and the other steps leave it
\* alone; a failure sets the error and nothing else
C28_StatsResetFrame ==
  [][/\ (\/ last'.op \in {"ResetStatsDone", "ResetStatsFailed", "ProgressRefreshed"}
         \/ \E u \in BagToSet(tasks') : u.kind = "resetStats" /\ u \notin Pending)
          => UNCHANGED <<currentCard, cardQueue, latestReviewStats, todaysReviewCount,
                         selectedAnswers, isSubmitted, isLoading, apiStatus,
                         isCurrentCardSuspended, priorityPreset, priorities,
                         isInitialized>>
     /\ last'.op = "ProgressRefreshed" => reviewHistory' = fetchUserProgress(reviewedCards)
     /\ (\/ last'.op \in {"ResetStatsDone", "ResetStatsFailed"}
         \/ \E u \in BagToSet(tasks') : u.kind = "resetStats" /\ u \notin Pending)
          => reviewHistory' = reviewHistory
     /\ last'.op = "ResetStatsFailed" => error' = "resetStats"
     /\ last'.op \in {"ResetStatsDone", "ProgressRefreshed"} => error' = error]_vars

\* the store has answered a stats-only reset while the stats of a review are
\* on screen, a card waits in the buffer and the history holds a record
C28_Witness ==
  /\ last.op = "ResetStatsDone"
  /\ latestReviewStats # NoStats
  /\ cardQueue # <<>>
  /\ currentCard # NoCard
  /\ reviewHistory # <<>>
  /\ todaysReviewCount > 0

\* C30: when the submission of handleRating fails, one error message is set
\* and nothing else is applied: the displayed card, the buffer, reviewHistory,
\* latestReviewStats and todaysReviewCount are unchanged, no next card is
\* served, isLoading and isSubmitted are false, and nothing is sent again
C30_RatingFailureFrame ==
  [][last'.op = "RatingFailed" =>
       /\ error' # "none"
       /\ UNCHANGED <<currentCard, cardQueue, reviewHistory, latestReviewStats,
                      todaysReviewCount>>
       /\ ~isLoading'
       /\ ~isSubmitted'
       /\ \E t \in Pending : t.kind = "rate" /\ tasks' = Finish(t)
       /\ UNCHANGED storeVars]_vars

\* a submission has failed: the card is still displayed and can be rated again
C30_Witness ==
  /\ last.op = "RatingFailed"
  /\ error = "review"
  /\ currentCard # NoCard
  /\ ~isSubmitted
  /\ ~isLoading
  /\ attempts = 1

\* C31: when a batch request of fetchNextCard fails (the due request, the
\* new-card fallback or the priority request), the error is set to one message,
\* no card is displayed, the buffer is empty and isLoading is false after the
\* failure is handled, and the operation ends without sending anything again
C31_FetchFailureState ==
  [][last'.op = "FetchError" =>
       /\ error' = "fetch"
       /\ currentCard' = NoCard
       /\ cardQueue' = <<>>
       /\ ~isLoading'
       /\ \E t \in Pending :
            /\ t.kind \in {"fetch", "fetchNew"}
            /\ tasks' = Retire(t, FALSE)
       /\ UNCHANGED storeVars]_vars

\* the batch request that follows an accepted rating has failed
C31_Witness ==
  /\ last.op = "FetchError"
  /\ error = "fetch"
  /\ currentCard = NoCard
  /\ sToday > 0
  /\ tasks = EmptyBag

\* C32: after a connectivity failure no history, count or card request is
\* issued until the user retries; the retry checks the connectivity first,
\* sends the batch request only when that check succeeds, and otherwise puts
\* the session back into the error state that offers the retry, isLoading false
C32_NoRequestWhileDisconnected ==
  [][LET InFlight(B, kind) ==
           BagCardinality([t \in {u \in BagToSet(B) : u.kind = kind} |-> B[t]])
         Issued == \/ \E kind \in {"initData", "fetch", "fetchNew", "preload", "rate"} :
                        InFlight(tasks', kind) > InFlight(tasks, kind)
                   \/ refreshes' # refreshes
     IN
     /\ apiStatus = "disconnected" => ~Issued
     /\ last'.op = "event" /\ InFlight(tasks', "retryConn") > InFlight(tasks, "retryConn")
          => ~Issued /\ apiStatus' = "checking"
     /\ last'.op = "RetryConnected"
          => InFlight(tasks', "fetch") = InFlight(tasks, "fetch") + 1
     /\ last'.op = "RetryDisconnected"
          => /\ ~Issued
             /\ apiStatus' = "disconnected"
             /\ ~isLoading'
             /\ showError']_vars

\* C33: the day streak of the statistics panel is the number of consecutive
\* days, counted back from today, on which at least one rating was made, and
\* 0 when none was made today: ratings on today and the two days before and
\* none on the day before those give 3, whichever cards were rated
C33_DayStreak ==
  srs.state = "UserStatsPanel" =>
    LET today == srs.now \div 2
        run == CHOOSE n \in 0..(today + 1) :
                 /\ \A d \in 0..(n - 1) : (today - d) \in srs.days
                 /\ (n <= today => (today - n) \notin srs.days)
    IN  srs.streak = run

\* C34: the retention rate is 100 times the ratings 3 and 4 over all ratings
\* of the rating histories of the records, to the one decimal the panel
\* shows: 0 when every rating is 1 or 2, 100 when every rating is 3 or 4,
\* within 0..100 always, and 0 when there is no rating
C34_RetentionRate ==
  srs.state = "UserStatsPanel" =>
    LET ratings == {<<i, j>> \in (1..Len(srs.history)) \X (1..MaxEvents) :
                      j <= Len(srs.history[i].rating_history)}
        correct == {p \in ratings : srs.history[p[1]].rating_history[p[2]] \in {3, 4}}
        total == Cardinality(ratings)
        rate == srs.retentionRate
    IN  /\ rate \in 0..1000
        /\ total = 0 => rate = 0
        /\ total > 0 =>
             /\ 2 * total * rate - 2000 * Cardinality(correct) \in (-total)..total
             /\ (correct = {} <=> rate = 0)
             /\ (correct = ratings <=> rate = 1000)

\* two cards with mixed ratings: two of three ratings are 3 or 4, shown as 66.7
C34_Witness ==
  /\ srs.state = "UserStatsPanel"
  /\ Len(srs.history) = 2
  /\ srs.retentionRate = 667

\* C35: the first-card batch fetch of the initialization is issued once per
\* mounted session: when initializeApp sends it, no run of initializeApp has
\* sent it before (none has completed and no such fetch is in flight),
\* whatever preset or priority changes meet an initialization in flight
C35_InitFetchOnce ==
  [][last'.op = "InitDataLoaded" =>
       /\ ~isInitialized
       /\ \A u \in Pending : ~(u.init /\ u.kind \in {"fetch", "fetchNew"})]_vars

\* C36: todaysReviewCount grows by exactly 1 with each submission of
\* handleRating the store accepted; a failed submission, the card fetches, the
\* prefetches and serving from the buffer leave it unchanged; it goes down
\* only when a fetch of the store's count succeeded and returned less
C36_TodaysCount ==
  [][/\ last'.op = "RatingAccepted" => todaysReviewCount' = todaysReviewCount + 1
     /\ last'.op \in {"RatingFailed", "FetchResponse", "FetchNewResponse", "FetchError",
                       "displayNextCardFromQueue", "PreloadStart", "PreloadResponse",
                       "PreloadError"}
          => todaysReviewCount' = todaysReviewCount
     /\ todaysReviewCount' < todaysReviewCount
          => last'.op = "InitDataLoaded" /\ todaysReviewCount' = sToday]_vars

\* C37: when handleDontShowAgain has completed without error the store holds
\* the card suspended and isCurrentCardSuspended, latestReviewStats and the
\* record of the card in reviewHistory say suspended, whether or not the
\* store lifted the suspension when it took the rating
C37_DontShowAgainSuspends ==
  [][last'.op = "DontShowResuspended" =>
       LET cardId == latestReviewStats'.card_id IN
       /\ cardId \in sSusp'
       /\ isCurrentCardSuspended'
       /\ latestReviewStats'.is_suspended
       /\ \E i \in 1..Len(reviewHistory') :
            reviewHistory'[i].cardId = cardId /\ reviewHistory'[i].is_suspended]_vars

\* C38: under fair delivery of timers and store responses, a rating the store
\* accepted is followed by a state with isLoading false in which a card is
\* displayed with isSubmitted false or no card is displayed, and isLoading
\* never stays true for ever
C38_RatingLeadsToCard ==
  /\ (last.op = "RatingAccepted") ~>
       (~isLoading /\ (currentCard = NoCard \/ ~isSubmitted))
  /\ isLoading ~> ~isLoading

\* the batch fetched after an accepted rating has put the next card on screen
C38_Witness ==
  /\ last.op \in {"FetchResponse", "FetchNewResponse"}
  /\ sToday > 0
  /\ ~isLoading
  /\ currentCard # NoCard
  /\ ~isSubmitted
  /\ tasks = EmptyBag

\* C40: on the card statistics page the is_suspended flag of the detail panel
\* equals the flag of the entry of the selected card in the list after every
\* suspend toggle and every batch unsuspend, failed requests included, and a
\* card whose unsuspend request failed is still shown suspended in both
C40_DetailMatchesList ==
  /\ (srs.state = "CardStatsPage" /\ srs.selectedCardDetails # Null) =>
       srs.selectedCardDetails.is_suspended
         = srs.reviewedCards[srs.selectedCardDetails.card_id]
  /\ (srs.state = "CardStatsPage" /\ srs.error = "batch") =>
       \A c \in srs.failed :
         /\ srs.reviewedCards[c]
         /\ (srs.selectedCardDetails # Null /\ srs.selectedCardDetails.card_id = c)
              => srs.selectedCardDetails.is_suspended

\* C39: a rating of 1 never lowers the difficulty adjustSrsParameters returns
\* when the input difficulty is at most 0.9 and a rating of 4 never raises it
\* when the input difficulty is at least 0.1, an absent difficulty counting
\* as 0.3; above 0.9 a rating of 1 returns 0.9 and below 0.1 a rating of 4
\* returns more than the input
C39_DifficultyDirection ==
  srs.state = "adjusted" =>
    LET d == IF srs.response.difficulty = Absent THEN 30 ELSE srs.response.difficulty
    IN  /\ (srs.rating = 1 /\ d <= 90) => srs.out.difficulty >= d
        /\ (srs.rating = 4 /\ d >= 10) => srs.out.difficulty <= d
        /\ (srs.rating = 1 /\ d > 90) => srs.out.difficulty = 90
        /\ (srs.rating = 4 /\ d < 10) => srs.out.difficulty > d

\* a rating of 1 of a response without difficulty returned 0.35
C39_Witness ==
  /\ srs.state = "adjusted"
  /\ srs.rating = 1
  /\ srs.response.difficulty = Absent
  /\ srs.out.difficulty = 35

\* C39 as stated: for every input difficulty in [0, 1] or absent, a rating of
\* 1 never lowers the difficulty adjustSrsParameters returns and a rating of 4
\* never raises it
C39_NeverAgainstRating ==
  srs.state = "adjusted" =>
    LET d == IF srs.response.difficulty = Absent THEN 30 ELSE srs.response.difficulty
    IN  /\ srs.rating = 1 => srs.out.difficulty >= d
        /\ srs.rating = 4 => srs.out.difficulty <= d

====
